---------------------------- MODULE Spec2Model ----------------------------
(***************************************************************************)
(* A model of the transcription-to-hint pipeline server (server/app):      *)
(*   - the session supervisor and the connection handlers that share it    *)
(*     (services/session_manager.py, routes/websocket.py, models/session)  *)
(*   - audio ingress with drop-oldest queues (routes/websocket.py)          *)
(*   - the completion streamer (services/llm_service.py)                    *)
(*   - the aggregator / trigger state machine (services/orchestrator.py)    *)
(* Each part has its own specification over the shared variables; the      *)
(* parts a specification does not exercise stay at their idle value.       *)
(***************************************************************************)
EXTENDS Integers, Sequences, FiniteSets, TLC

VARIABLES
    \* ---- session supervisor and connection handlers
    hpc,            \* handler -> "new" | "open" | "closed"
    sstate,         \* handler's session -> "none" | "created" | "active" | "stopped"
    tasks,          \* handler's session -> Session._tasks, a sequence of task records
    starts,         \* handler -> number of start_session control messages handled
    stop_again,     \* log (SpecStop): the session stop_session last found Stopped (0 = none)
    current,        \* SessionManager.current_session (0 = None)
    lock,           \* holder of SessionManager._lock (0 = free)
    lockOp,         \* the operation the holder is suspended in
    lockTarget,     \* the session whose cancel_tasks() the holder awaits
    \* ---- audio ingress of one session
    istate,         \* Session.state of the ingress session
    queue,          \* channel -> Session.mic_queue (0) / Session.system_queue (1)
    total_frames,   \* channel -> SessionStats.total_frames_mic / _system
    dropped_frames, \* channel -> SessionStats.dropped_frames_mic / _system
    \* ---- completion streamer (one LLMService)
    lmode,          \* Session.mode read by the streamer
    lhints,         \* Session.hints_enabled read by the streamer
    generating,     \* LLMService._generating
    cancel_event,   \* LLMService._cancel_event.is_set()
    current_hint_id,\* LLMService._current_hint_id (0 = None)
    pending_chunk,  \* LLMService._pending_chunk (0 = None)
    gens,           \* hint id -> the _generate_hint activation minted with it
    next_chunk,     \* the next TextChunk to arrive (chunks are numbered)
    completed,      \* hint ids for which HintCompleted was published
    hints_generated,\* SessionStats.hints_generated
    llm_errors,     \* SessionStats.llm_errors
    preempted,      \* log: generations a chunk preempted (Interview mode)
    buffered,       \* log: chunks stored in _pending_chunk, with generation and mode
    \* ---- aggregator and trigger state machine (one Orchestrator)
    now,            \* time.time() in milliseconds
    omode,          \* Session.mode read by the orchestrator
    ohints,         \* Session.hints_enabled read by the orchestrator
    cur_seg,        \* speaker -> RealtimeSTTClient._current_segment_id
    minted,         \* speaker -> number of segment ids minted (uuid4 calls)
    current_segments, \* TextAggregator.current_segments: id -> segment
    history,        \* TextAggregator.history
    pending_text,   \* TextAggregator.pending_text
    pending_speaker,\* TextAggregator.pending_speaker ("none" = None)
    pending_segment_id, \* TextAggregator.pending_segment_id (<<>> = None)
    last_delta_time,\* TextAggregator.last_delta_time
    last_hint_time, \* Orchestrator._last_hint_time
    opc,            \* process -> "idle" | suspended in publish(TEXT_CHUNK_READY)
    dispatches,     \* log: every _process_chunk call and what became of it
    nevents,        \* number of inbound messages (STT, control) handled
    \* ---- event bus (one EventBus, one topic)
    bus_handlers,   \* EventBus._handlers[topic], in subscription order
    bus_gone,       \* handlers whose owner has unsubscribed them in its cleanup
    bus_pub,        \* log: the publishers of the events, in publication order
    bus_tasks,      \* the _safe_call tasks created by publish, in creation order
    bus_wait,       \* publisher -> the event whose gather it awaits (0 = none)
    bus_started,    \* log: task indices in the order the handlers were entered
    bus_finished,   \* log: task indices in the order the handlers ended
    bus_logged,     \* tasks whose exception _safe_call logged
    bus_returned,   \* events whose publish returned normally to the publisher
    \* ---- one connection handler, its session and its subscriptions
    cpc,            \* "new" | "open" (in _message_loop) | "closed" (handle returned)
    has_session,    \* ConnectionHandler.session is not None
    cstate,         \* Session.state ("none" before the session exists)
    cmode,          \* Session.mode
    chints,         \* Session.hints_enabled
    ctasks,         \* len(Session._tasks)
    subs,           \* topic -> EventBus._handlers[topic], in subscription order
    destroy_req,    \* destroy_session was called with the handler's session id
    errors_sent,    \* number of error frames passed to _send_error
    exit_path,      \* how handle left _message_loop ("none" while inside)
    inbox,          \* log: the text messages handled, in order
    \* ---- STT service (one STTService, its two RealtimeSTTClients)
    stt_pc,         \* position of STTService.run
    stt_client,     \* speaker -> "none" | "connected" | "failed" | "closed"
    stt_pumps,      \* the two audio tasks: "never" | "running" | "cancelled"
    stt_sstate,     \* Session.state as the service reads it
    stt_seg,        \* speaker -> RealtimeSTTClient._current_segment_id (0 = None)
    stt_minted,     \* speaker -> number of uuid4() segment ids minted
    stt_received,   \* speaker -> log: upstream message types, in order received
    stt_emitted,    \* speaker -> log: on_delta / on_completed calls made
    stt_published,  \* log: the STT_ERROR events published, by cause
    transcript_segments, \* SessionStats.transcript_segments
    \* ---- a pure function applied to an argument
    arg,            \* the argument
    ret,            \* what the call returned
    called,         \* the call has been made
    \* ---- the completion streamer's session being stopped
    llm_sstate,     \* Session.state as LLMService.run reads it
    llm_cleaned,    \* LLMService._cleanup has run
    \* ---- the audio pumps of the speech-to-text service
    dequeued        \* channel -> frames the channel's pump took from the queue

sessVars == <<hpc, sstate, tasks, starts, stop_again, current, lock, lockOp, lockTarget>>
ingVars == <<istate, queue, total_frames, dropped_frames>>

llmVars == <<lmode, lhints, generating, cancel_event, current_hint_id,
             pending_chunk, gens, next_chunk, completed, hints_generated,
             llm_errors, preempted, buffered>>

orchVars == <<now, omode, ohints, cur_seg, minted, current_segments, history,
              pending_text, pending_speaker, pending_segment_id,
              last_delta_time, last_hint_time, opc, dispatches, nevents>>

busVars == <<bus_handlers, bus_gone, bus_pub, bus_tasks, bus_wait, bus_started,
             bus_finished, bus_logged, bus_returned>>

connVars == <<cpc, has_session, cstate, cmode, chints, ctasks, subs,
              destroy_req, errors_sent, exit_path, inbox>>

sttVars == <<stt_pc, stt_client, stt_pumps, stt_sstate, stt_seg, stt_minted,
             stt_received, stt_emitted, stt_published, transcript_segments>>

pureVars == <<arg, ret, called>>

haltVars == <<llm_sstate, llm_cleaned>>

pumpVars == <<dequeued>>

vars == <<sessVars, ingVars, llmVars, orchVars, busVars, connVars, sttVars, pureVars,
          haltVars, pumpVars>>

\* What each specification leaves at its idle value.
notSess == <<pumpVars, haltVars, sttVars, pureVars, ingVars, llmVars, orchVars, busVars, connVars>>
notIng == <<pumpVars, haltVars, sttVars, pureVars, sessVars, llmVars, orchVars, busVars, connVars>>
notLlm == <<pumpVars, haltVars, sttVars, pureVars, sessVars, ingVars, orchVars, busVars, connVars>>
notOrch == <<pumpVars, haltVars, sttVars, pureVars, sessVars, ingVars, llmVars, busVars, connVars>>
notBus == <<pumpVars, haltVars, sttVars, pureVars, sessVars, ingVars, llmVars, orchVars, connVars>>
notConn == <<pumpVars, haltVars, sessVars, ingVars, llmVars, orchVars, busVars, sttVars, pureVars>>
notStt == <<pumpVars, haltVars, sessVars, ingVars, llmVars, orchVars, busVars, connVars, pureVars>>
notPure == <<pumpVars, haltVars, sessVars, ingVars, llmVars, orchVars, busVars, connVars, sttVars>>

---------------------------------------------------------------------------
(* Bounds of the model.                                                     *)
NumHandlers == 2
MaxStarts == 2

MaxChunks == 3
MaxTokens == 2

MaxEvents == 4
TimeStep == 1000
MaxTime == 2000

Handlers == 1..NumHandlers
Channels == {0, 1}
HintIds == 1..MaxChunks
Speakers == {"ME", "THEM"}
Procs == {"tick", "me", "them"}

MaxBusEvents == 2
MaxBusTasks == 4

MaxMsgs == 3
ConnTopics == {"transcript_delta", "transcript_completed", "hint_token", "hint_completed"}
Publishers == {"mic", "sys"}
BusHandlers == {"orch", "ws"}

---------------------------------------------------------------------------
(* Session supervisor (services/session_manager.py) and the connection     *)
(* handler's use of it (routes/websocket.py).  Every handler creates        *)
(* exactly one Session, so a session is named by its handler.               *)

Pipeline == <<"stt", "orch", "llm">>

NewTasks == [k \in 1..3 |-> [kind |-> Pipeline[k], st |-> "running"]]

AnyRunning(ts) == \E i \in 1..Len(ts) : ts[i].st = "running"

TotalStarts == LET RECURSIVE Sum(_)
                   Sum(n) == IF n = 0 THEN 0 ELSE starts[n] + Sum(n - 1)
               IN Sum(NumHandlers)

\* A start_session without the state test.
StartAnyState(st) == "active"

\* SessionManager.start_session: only a Created session becomes Active; in
\* any other state the call logs a warning and returns.
StartSessionState(st) == IF st = "created" THEN "active" ELSE st

\* A _stop_session without the early return.
AlreadyStoppedNever(st) == FALSE

\* SessionManager._stop_session: a Stopped session is left alone.
AlreadyStopped(st) == st = "stopped"

SessIdle ==
    /\ hpc = [h \in Handlers |-> "new"]
    /\ sstate = [h \in Handlers |-> "none"]
    /\ tasks = [h \in Handlers |-> <<>>]
    /\ starts = [h \in Handlers |-> 0]
    /\ stop_again = 0
    /\ current = 0
    /\ lock = 0
    /\ lockOp = "none"
    /\ lockTarget = 0

\* Session(): empty queues, zero counters, state Created.
IngIdle ==
    /\ istate = "created"
    /\ queue = [ch \in Channels |-> <<>>]
    /\ total_frames = [ch \in Channels |-> 0]
    /\ dropped_frames = [ch \in Channels |-> 0]

\* LLMService.__init__ on a fresh Session; no _generate_hint activation yet.
NoGen == [chunk |-> 0, pc |-> "none", resp |-> "none", collected |-> 0,
          parent |-> 0, how |-> "none"]

LlmIdle ==
    /\ lmode = "interview"
    /\ lhints = TRUE
    /\ generating = FALSE
    /\ cancel_event = FALSE
    /\ current_hint_id = 0
    /\ pending_chunk = 0
    /\ gens = [g \in HintIds |-> NoGen]
    /\ next_chunk = 1
    /\ completed = {}
    /\ hints_generated = 0
    /\ llm_errors = 0
    /\ preempted = {}
    /\ buffered = {}

\* config.py
AGGREGATION_TIMEOUT_MS == 800
AGGREGATION_WORD_THRESHOLD == 12
HINT_RATE_LIMIT_MS == 2000

\* The wall clock when the orchestrator is built.  time.time() is far more
\* than HINT_RATE_LIMIT_MS past its epoch, so measured against the initial
\* _last_hint_time = 0 the first Meeting chunk is never rate limited.
StartTime == HINT_RATE_LIMIT_MS

NoSeg == <<>>

\* TextAggregator() and Orchestrator.__init__; both STT clients connected
\* with no utterance open; the session is in Interview mode, hints enabled
\* (models/session.py defaults).
OrchFresh ==
    /\ now = StartTime
    /\ cur_seg = [sp \in Speakers |-> NoSeg]
    /\ minted = [sp \in Speakers |-> 0]
    /\ current_segments = <<>>
    /\ history = <<>>
    /\ pending_text = <<>>
    /\ pending_speaker = "none"
    /\ pending_segment_id = NoSeg
    /\ last_delta_time = 0
    /\ last_hint_time = 0
    /\ opc = [p \in Procs |-> "idle"]
    /\ dispatches = <<>>
    /\ nevents = 0

OrchIdle == OrchFresh /\ omode = "interview" /\ ohints = TRUE

\* EventBus.__init__: no handler subscribed, nothing published.
BusIdle ==
    /\ bus_handlers = <<>>
    /\ bus_gone = {}
    /\ bus_pub = <<>>
    /\ bus_tasks = <<>>
    /\ bus_wait = [p \in Publishers |-> 0]
    /\ bus_started = <<>>
    /\ bus_finished = <<>>
    /\ bus_logged = {}
    /\ bus_returned = {}

\* ConnectionHandler.__init__ on a fresh SessionManager: no session yet,
\* nothing subscribed on the bus.
ConnIdle ==
    /\ cpc = "new"
    /\ has_session = FALSE
    /\ cstate = "none"
    /\ cmode = "interview"
    /\ chints = TRUE
    /\ ctasks = 0
    /\ subs = [t \in ConnTopics |-> <<>>]
    /\ destroy_req = FALSE
    /\ errors_sent = 0
    /\ exit_path = "none"
    /\ inbox = <<>>

\* STTService.__init__ of a pipeline spawned on an Active session; run has
\* built its two clients and is about to connect the microphone one.
SttIdle ==
    /\ stt_pc = "connect_mic"
    /\ stt_client = [sp \in Speakers |-> "none"]
    /\ stt_pumps = "never"
    /\ stt_sstate = "active"
    /\ stt_seg = [sp \in Speakers |-> 0]
    /\ stt_minted = [sp \in Speakers |-> 0]
    /\ stt_received = [sp \in Speakers |-> <<>>]
    /\ stt_emitted = [sp \in Speakers |-> <<>>]
    /\ stt_published = <<>>
    /\ transcript_segments = 0

\* no call made
PureIdle == arg = "none" /\ ret = "none" /\ called = FALSE

\* the session of the completion streamer is Active, the service running
HaltIdle == llm_sstate = "active" /\ llm_cleaned = FALSE

\* the pumps have taken no frame
PumpIdle == dequeued = [ch \in Channels |-> 0]

\* every component other than the sessions at its idle value
RestIdle == IngIdle /\ LlmIdle /\ BusIdle /\ ConnIdle /\ SttIdle /\ HaltIdle /\ PumpIdle

\* SessionManager.create_session, called from ConnectionHandler.handle.
\* An Active current session is stopped first; awaiting its tasks suspends
\* the caller with the lock held.
CreateSession(h) ==
    /\ hpc[h] = "new"
    /\ lock = 0
    /\ IF current # 0 /\ sstate[current] = "active"
       THEN IF AnyRunning(tasks[current])
            THEN /\ sstate' = [sstate EXCEPT ![current] = "stopped"]
                 /\ lock' = h
                 /\ lockOp' = "create"
                 /\ lockTarget' = current
                 /\ UNCHANGED <<hpc, tasks, current>>
            ELSE /\ sstate' = [sstate EXCEPT ![current] = "stopped", ![h] = "created"]
                 /\ tasks' = [tasks EXCEPT ![current] = <<>>]
                 /\ current' = h
                 /\ hpc' = [hpc EXCEPT ![h] = "open"]
                 /\ UNCHANGED <<lock, lockOp, lockTarget>>
       ELSE /\ sstate' = [sstate EXCEPT ![h] = "created"]
            /\ current' = h
            /\ hpc' = [hpc EXCEPT ![h] = "open"]
            /\ UNCHANGED <<tasks, lock, lockOp, lockTarget>>
    /\ UNCHANGED <<starts, stop_again>>
    /\ UNCHANGED notSess

\* ConnectionHandler._start_session: SessionManager.start_session, then the
\* three pipeline tasks are spawned and registered whatever start_session did.
StartMsg(h) ==
    /\ hpc[h] = "open"
    /\ lock = 0
    /\ TotalStarts < MaxStarts
    /\ sstate' = [sstate EXCEPT ![h] = StartSessionState(@)]
    /\ tasks' = [tasks EXCEPT ![h] = @ \o NewTasks]
    /\ starts' = [starts EXCEPT ![h] = @ + 1]
    /\ UNCHANGED <<hpc, stop_again, current, lock, lockOp, lockTarget>>
    /\ UNCHANGED notSess

\* ConnectionHandler._stop_session: SessionManager.stop_session on the
\* handler's own session.
StopSession(h) ==
    /\ hpc[h] = "open"
    /\ lock = 0
    /\ IF AlreadyStopped(sstate[h])
       THEN UNCHANGED <<sstate, tasks, lock, lockOp, lockTarget>>
       ELSE /\ sstate' = [sstate EXCEPT ![h] = "stopped"]
            /\ IF AnyRunning(tasks[h])
               THEN /\ lock' = h
                    /\ lockOp' = "stop"
                    /\ lockTarget' = h
                    /\ UNCHANGED tasks
               ELSE /\ tasks' = [tasks EXCEPT ![h] = <<>>]
                    /\ UNCHANGED <<lock, lockOp, lockTarget>>
    /\ UNCHANGED <<hpc, starts, current>>
    /\ UNCHANGED notSess

StopMsg(h) == StopSession(h) /\ UNCHANGED stop_again

\* The same step, with the log of calls that found the session Stopped.
StopMsgLogged(h) ==
    /\ StopSession(h)
    /\ stop_again' = IF AlreadyStopped(sstate[h]) THEN h ELSE stop_again

\* ConnectionHandler._cleanup: SessionManager.destroy_session(session_id).
\* Only the supervisor's current session is stopped and released.
Disconnect(h) ==
    /\ hpc[h] = "open"
    /\ lock = 0
    /\ IF current = h
       THEN IF AlreadyStopped(sstate[h])
            THEN /\ current' = 0
                 /\ hpc' = [hpc EXCEPT ![h] = "closed"]
                 /\ UNCHANGED <<sstate, tasks, lock, lockOp, lockTarget>>
            ELSE /\ sstate' = [sstate EXCEPT ![h] = "stopped"]
                 /\ IF AnyRunning(tasks[h])
                    THEN /\ lock' = h
                         /\ lockOp' = "destroy"
                         /\ lockTarget' = h
                         /\ UNCHANGED <<hpc, tasks, current>>
                    ELSE /\ tasks' = [tasks EXCEPT ![h] = <<>>]
                         /\ current' = 0
                         /\ hpc' = [hpc EXCEPT ![h] = "closed"]
                         /\ UNCHANGED <<lock, lockOp, lockTarget>>
       ELSE /\ hpc' = [hpc EXCEPT ![h] = "closed"]
            /\ UNCHANGED <<sstate, tasks, current, lock, lockOp, lockTarget>>
    /\ UNCHANGED <<starts, stop_again>>
    /\ UNCHANGED notSess

\* Session.cancel_tasks has cancelled and awaited every task and cleared the
\* list; the suspended supervisor operation runs to its end and releases the
\* lock.
FinishCancel(h) ==
    /\ lock = h
    /\ tasks' = [tasks EXCEPT ![lockTarget] = <<>>]
    /\ lock' = 0
    /\ lockOp' = "none"
    /\ lockTarget' = 0
    /\ CASE lockOp = "create" ->
              /\ sstate' = [sstate EXCEPT ![h] = "created"]
              /\ current' = h
              /\ hpc' = [hpc EXCEPT ![h] = "open"]
         [] lockOp = "stop" ->
              UNCHANGED <<sstate, current, hpc>>
         [] lockOp = "destroy" ->
              /\ current' = 0
              /\ hpc' = [hpc EXCEPT ![h] = "closed"]
              /\ UNCHANGED sstate
    /\ UNCHANGED <<starts, stop_again>>
    /\ UNCHANGED notSess

\* A pipeline task returns by itself: its run loop ends once the session is
\* no longer Active; the STT service also returns when a connect fails.
TaskExit(s, i) ==
    /\ i \in 1..Len(tasks[s])
    /\ tasks[s][i].st = "running"
    /\ sstate[s] # "active" \/ tasks[s][i].kind = "stt"
    /\ tasks' = [tasks EXCEPT ![s][i].st = "done"]
    /\ UNCHANGED <<hpc, sstate, starts, stop_again, current, lock, lockOp, lockTarget>>
    /\ UNCHANGED notSess

Init == SessIdle /\ IngIdle /\ LlmIdle /\ OrchIdle /\ BusIdle /\ ConnIdle /\ SttIdle /\ PureIdle /\ HaltIdle /\ PumpIdle

Next ==
    \/ \E h \in Handlers : CreateSession(h)
    \/ \E h \in Handlers : StartMsg(h)
    \/ \E h \in Handlers : StopMsg(h)
    \/ \E h \in Handlers : Disconnect(h)
    \/ \E h \in Handlers : FinishCancel(h)
    \/ \E s \in Handlers : \E i \in 1..(3 * MaxStarts) : TaskExit(s, i)

Spec == Init /\ [][Next]_vars

\* The supervisor with the stop_again log kept.
NextStop ==
    \/ \E h \in Handlers : CreateSession(h)
    \/ \E h \in Handlers : StartMsg(h)
    \/ \E h \in Handlers : StopMsgLogged(h)
    \/ \E h \in Handlers : Disconnect(h)
    \/ \E h \in Handlers : FinishCancel(h)
    \/ \E s \in Handlers : \E i \in 1..(3 * MaxStarts) : TaskExit(s, i)

SpecStop == Init /\ [][NextStop]_vars

---------------------------------------------------------------------------
\* C1: in every reachable state at most one Session is Active.
AtMostOneActive == Cardinality({h \in Handlers : sstate[h] = "active"}) <= 1

\* C3: a Stopped session whose stop_session has returned has an empty task
\* set, so none of its registered tasks is still running.
NoTaskSurvivesStopped ==
    \A s \in Handlers :
        (sstate[s] = "stopped" /\ ~(lock # 0 /\ lockTarget = s)) => tasks[s] = <<>>

\* C16: start_session moves a session from Created to Active and leaves
\* every other state as it is; no step makes a session Active from a state
\* other than Created, and a Stopped session stays Stopped.
StartOnlyFromCreatedStep ==
    \A h \in Handlers :
        /\ StartMsg(h) =>
              \/ sstate[h] = "created" /\ sstate'[h] = "active"
              \/ sstate[h] # "created" /\ sstate'[h] = sstate[h]
        /\ (sstate'[h] = "active" /\ sstate[h] # "active") => sstate[h] = "created"
        /\ sstate[h] = "stopped" => sstate'[h] = "stopped"

StartOnlyFromCreated == [][StartOnlyFromCreatedStep]_vars

\* C16 witness: start_session was handled on a session that stop_session
\* had already stopped (its tasks were registered after the stop cleared the
\* task list), and the session is still Stopped.
StartOnStoppedWitness ==
    \E h \in Handlers :
        /\ sstate[h] = "stopped"
        /\ lock = 0
        /\ starts[h] >= 1
        /\ tasks[h] # <<>>

\* C17: stop_session always leaves the session Stopped, and on a session
\* that is already Stopped it changes no field of the session or of the
\* supervisor and cancels no task.
StopIdempotentStep ==
    \A h \in Handlers :
        StopMsgLogged(h) =>
            /\ sstate'[h] = "stopped"
            /\ sstate[h] = "stopped" =>
                  UNCHANGED <<hpc, sstate, tasks, starts, current, lock, lockOp, lockTarget>>

StopIdempotent == [][StopIdempotentStep]_vars

\* C17 witness: stop_session was handled on a session that was already
\* Stopped and had running tasks registered, and they are still running.
StopTwiceWitness ==
    \E h \in Handlers :
        /\ stop_again = h
        /\ sstate[h] = "stopped"
        /\ lock = 0
        /\ AnyRunning(tasks[h])

---------------------------------------------------------------------------
(* Audio ingress (routes/websocket.py, ConnectionHandler._handle_audio) on *)
(* one session.  A binary message is a channel byte followed by the PCM    *)
(* payload; the k-th frame accepted on a channel carries payload k, so     *)
(* that frames can be told apart.                                           *)

AUDIO_QUEUE_MAX_SIZE == 200

MaxFrames == 251

Min(a, b) == IF a < b THEN a ELSE b
Max(a, b) == IF a > b THEN a ELSE b

\* Mutant of QueueFull: the queue takes one frame more before it is full.
QueueFullAbove(q) == Len(q) > AUDIO_QUEUE_MAX_SIZE
\* asyncio.Queue(maxsize).put_nowait raises QueueFull at maxsize.
QueueFull(q) == Len(q) >= AUDIO_QUEUE_MAX_SIZE

\* The queue after a frame was put with the drop-oldest policy: on QueueFull
\* get_nowait() removes the head, then the frame is put.
\* Mutant of PutDropOldest: on QueueFull the new frame is discarded.
PutDropNewest(q, pcm) == IF QueueFull(q) THEN q ELSE Append(q, pcm)
PutDropOldest(q, pcm) ==
    IF QueueFull(q) THEN Append(Tail(q), pcm) ELSE Append(q, pcm)

\* start_session / stop_session control messages of the ingress session.
IngStart ==
    /\ istate = "created"
    /\ istate' = "active"
    /\ UNCHANGED <<queue, total_frames, dropped_frames>>
    /\ UNCHANGED notIng

IngStop ==
    /\ istate # "stopped"
    /\ istate' = "stopped"
    /\ UNCHANGED <<queue, total_frames, dropped_frames>>
    /\ UNCHANGED notIng

\* _handle_audio(data): len is the message length class (0, 1, or 2 for
\* "at least two bytes"), ch the channel byte.
HandleAudio(len, ch) ==
    /\ total_frames[0] + total_frames[1] < MaxFrames
    /\ IF istate # "active" \/ len < 2 \/ ch \notin Channels
       THEN UNCHANGED <<queue, total_frames, dropped_frames>>
       ELSE LET pcm == total_frames[ch] + 1 IN
            /\ total_frames' = [total_frames EXCEPT ![ch] = @ + 1]
            /\ queue' = [queue EXCEPT ![ch] = PutDropOldest(@, pcm)]
            /\ dropped_frames' =
                   IF QueueFull(queue[ch])
                   THEN [dropped_frames EXCEPT ![ch] = @ + 1]
                   ELSE dropped_frames
    /\ UNCHANGED istate
    /\ UNCHANGED notIng

InitIngress == SessIdle /\ IngIdle /\ LlmIdle /\ OrchIdle /\ BusIdle /\ ConnIdle /\ SttIdle /\ PureIdle /\ HaltIdle /\ PumpIdle

NextIngress ==
    \/ IngStart
    \/ IngStop
    \/ \E len \in 0..2 : \E ch \in 0..2 : HandleAudio(len, ch)

SpecIngress == InitIngress /\ [][NextIngress]_vars

\* C2: with no dequeue in between (this specification has no pump), after n
\* ingress enqueues on a channel its queue holds exactly the last min(n, 200)
\* frames in FIFO order and the channel's dropped counter is max(0, n - 200).
QueueBackpressure ==
    \A ch \in Channels :
        LET n == total_frames[ch]
            k == Min(n, AUDIO_QUEUE_MAX_SIZE)
        IN /\ queue[ch] = [i \in 1..k |-> n - k + i]
           /\ dropped_frames[ch] = Max(0, n - AUDIO_QUEUE_MAX_SIZE)

\* C2 witness: 250 frames were enqueued on the mic channel, 200 are queued
\* and 50 were dropped.
QueueBackpressureWitness ==
    /\ total_frames[0] = 250
    /\ Len(queue[0]) = 200
    /\ dropped_frames[0] = 50

---------------------------------------------------------------------------
(* Completion streamer (services/llm_service.py).  A TextChunk arrives when *)
(* the event bus runs _on_chunk for it; every _generate_hint activation     *)
(* mints a hint id and is followed through its suspension points:           *)
(*   "stream"  awaiting the upstream response or its next SSE line          *)
(*   "tokpub"  awaiting publish(HINT_TOKEN)                                 *)
(*   "compub"  awaiting publish(HINT_COMPLETED)                             *)
(*   "errpub"  awaiting publish(LLM_ERROR) in the except clause             *)
(*   "wait"    in its finally clause, awaiting the nested _generate_hint    *)
(*   "done"    returned                                                     *)

InFlight == {"stream", "tokpub", "compub", "errpub"}

GensInFlight == {g \in HintIds : gens[g].pc \in InFlight}

\* uuid4(): an id not used before.
NextHint == 1 + Cardinality({g \in HintIds : gens[g].pc # "none"})

\* The activations suspended in their finally clause below activation g.
RECURSIVE Ancestors(_)
Ancestors(g) ==
    IF gens[g].parent = 0 THEN {}
    ELSE {gens[g].parent} \cup Ancestors(gens[g].parent)

\* Mutant of IsGenerating: _on_chunk never sees a generation in flight.
NeverGenerating == FALSE
\* _on_chunk: `if self._generating`.
IsGenerating == generating

\* Mutant of MayComplete: the cancel flag is not consulted after the stream.
MayCompleteIgnoringCancel(collected, cancel) == collected > 0
\* _generate_hint: `if collected_text and not self._cancel_event.is_set()`.
MayComplete(collected, cancel) == collected > 0 /\ ~cancel

\* Mutant of HasPending: the finally clause never consumes the pending chunk.
HasPendingNever(p) == FALSE
\* _generate_hint, finally: `if self._pending_chunk`.
HasPending(p) == p # 0

\* _generate_hint(chunk) up to its first await: the flags are set and a hint
\* id is minted.
NewGen(chunk, parent) ==
    [chunk |-> chunk, pc |-> "stream", resp |-> "none", collected |-> 0,
     parent |-> parent, how |-> "running"]

\* An activation past its try block: the response and the collected text
\* are gone, how it ended is recorded.
Ended(gen, pc, how) ==
    [gen EXCEPT !.pc = pc, !.how = how, !.resp = "none", !.collected = 0]

\* The finally clause of activation g, which ended as `how`: the flags are
\* reset and a pending chunk is consumed by a nested _generate_hint; without
\* one, g and the activations waiting for it return.
Finally(g, how) ==
    IF HasPending(pending_chunk)
    THEN /\ pending_chunk' = 0
         /\ generating' = TRUE
         /\ cancel_event' = FALSE
         /\ current_hint_id' = NextHint
         /\ gens' = [gens EXCEPT ![g] = Ended(gens[g], "wait", how),
                                 ![NextHint] = NewGen(pending_chunk, g)]
    ELSE /\ generating' = FALSE
         /\ current_hint_id' = 0
         /\ gens' = [h \in HintIds |->
                       IF h = g THEN Ended(gens[g], "done", how)
                       ELSE IF h \in Ancestors(g) THEN [gens[h] EXCEPT !.pc = "done"]
                       ELSE gens[h]]
         /\ UNCHANGED <<pending_chunk, cancel_event>>

\* An _on_chunk that cancels in either mode.
CancelsAlways(mode) == TRUE

\* _on_chunk: only in Interview mode is the cancel event set.
CancelsOnChunk(mode) == mode = "interview"

\* LLMService._on_chunk(chunk).
OnChunk ==
    /\ next_chunk <= MaxChunks
    /\ next_chunk' = next_chunk + 1
    /\ IF ~lhints
       THEN UNCHANGED <<generating, cancel_event, current_hint_id,
                        pending_chunk, gens, preempted, buffered>>
       ELSE IF IsGenerating
       THEN /\ pending_chunk' = next_chunk
            /\ cancel_event' = (CancelsOnChunk(lmode) \/ cancel_event)
            /\ preempted' =
                 IF lmode = "interview"
                 THEN preempted \cup {[hint |-> current_hint_id,
                                       late |-> current_hint_id \in completed]}
                 ELSE preempted
            /\ buffered' = buffered \cup {[chunk |-> next_chunk,
                                           hint |-> current_hint_id,
                                           mode |-> lmode]}
            /\ UNCHANGED <<generating, current_hint_id, gens>>
       ELSE /\ generating' = TRUE
            /\ cancel_event' = FALSE
            /\ current_hint_id' = NextHint
            /\ gens' = [gens EXCEPT ![NextHint] = NewGen(next_chunk, 0)]
            /\ UNCHANGED <<pending_chunk, preempted, buffered>>
    /\ UNCHANGED <<lmode, lhints, completed, hints_generated, llm_errors>>
    /\ UNCHANGED notLlm

\* The upstream answers: status 200 opens the stream, any other status makes
\* _generate_hint log and return.
Response(g, ok) ==
    /\ gens[g].pc = "stream"
    /\ gens[g].resp = "none"
    /\ IF ok
       THEN /\ gens' = [gens EXCEPT ![g].resp = "ok"]
            /\ UNCHANGED <<generating, cancel_event, current_hint_id, pending_chunk>>
       ELSE Finally(g, "status")
    /\ UNCHANGED <<lmode, lhints, next_chunk, completed, hints_generated,
                   llm_errors, preempted, buffered>>
    /\ UNCHANGED notLlm

\* After the line loop: HintCompleted is published for a non-empty text that
\* was not cancelled.
AfterLoop(g) ==
    IF MayComplete(gens[g].collected, cancel_event)
    THEN /\ hints_generated' = hints_generated + 1
         /\ completed' = completed \cup {g}
         /\ gens' = [gens EXCEPT ![g].pc = "compub"]
         /\ UNCHANGED <<generating, cancel_event, current_hint_id, pending_chunk>>
    ELSE /\ Finally(g, IF cancel_event THEN "cancelled" ELSE "empty")
         /\ UNCHANGED <<hints_generated, completed>>

\* One SSE line is received: the cancel flag is checked first; a token line
\* publishes HintToken, "[DONE]" leaves the loop, other lines are skipped.
Line(g, kind) ==
    /\ gens[g].pc = "stream"
    /\ gens[g].resp = "ok"
    /\ kind = "token" => gens[g].collected < MaxTokens
    /\ IF cancel_event
       THEN /\ Finally(g, "cancelled")
            /\ UNCHANGED <<hints_generated, completed>>
       ELSE CASE kind = "token" ->
                   /\ gens' = [gens EXCEPT ![g].collected = @ + 1, ![g].pc = "tokpub"]
                   /\ UNCHANGED <<generating, cancel_event, current_hint_id,
                                  pending_chunk, hints_generated, completed>>
              [] kind = "skip" ->
                   UNCHANGED <<gens, generating, cancel_event, current_hint_id,
                               pending_chunk, hints_generated, completed>>
              [] kind = "done" -> AfterLoop(g)
    /\ UNCHANGED <<lmode, lhints, next_chunk, llm_errors, preempted, buffered>>
    /\ UNCHANGED notLlm

\* The stream ends without a "[DONE]" line.
StreamEnd(g) ==
    /\ gens[g].pc = "stream"
    /\ gens[g].resp = "ok"
    /\ AfterLoop(g)
    /\ UNCHANGED <<lmode, lhints, next_chunk, llm_errors, preempted, buffered>>
    /\ UNCHANGED notLlm

\* The request or the stream raises (connect error, the 30 s timeout): the
\* except clause publishes LLM_ERROR.
StreamError(g) ==
    /\ gens[g].pc = "stream"
    /\ gens' = [gens EXCEPT ![g].pc = "errpub"]
    /\ UNCHANGED <<lmode, lhints, generating, cancel_event, current_hint_id,
                   pending_chunk, next_chunk, completed, hints_generated,
                   llm_errors, preempted, buffered>>
    /\ UNCHANGED notLlm

\* An awaited publish returns to the activation.
PublishReturn(g) ==
    /\ gens[g].pc \in {"tokpub", "compub", "errpub"}
    /\ CASE gens[g].pc = "tokpub" ->
              /\ gens' = [gens EXCEPT ![g].pc = "stream"]
              /\ UNCHANGED <<generating, cancel_event, current_hint_id,
                             pending_chunk, llm_errors>>
         [] gens[g].pc = "compub" ->
              /\ Finally(g, "normal")
              /\ UNCHANGED llm_errors
         [] gens[g].pc = "errpub" ->
              /\ llm_errors' = llm_errors + 1
              /\ Finally(g, "error")
    /\ UNCHANGED <<lmode, lhints, next_chunk, completed, hints_generated, preempted, buffered>>
    /\ UNCHANGED notLlm

\* set_mode / pause_hints / resume_hints control messages.
LlmSetMode(m) ==
    /\ lmode # m
    /\ lmode' = m
    /\ UNCHANGED <<lhints, generating, cancel_event, current_hint_id,
                   pending_chunk, gens, next_chunk, completed, hints_generated,
                   llm_errors, preempted, buffered>>
    /\ UNCHANGED notLlm

LlmSetHints(b) ==
    /\ lhints # b
    /\ lhints' = b
    /\ UNCHANGED <<lmode, generating, cancel_event, current_hint_id,
                   pending_chunk, gens, next_chunk, completed, hints_generated,
                   llm_errors, preempted, buffered>>
    /\ UNCHANGED notLlm

InitLLM == SessIdle /\ IngIdle /\ LlmIdle /\ OrchIdle /\ BusIdle /\ ConnIdle /\ SttIdle /\ PureIdle /\ HaltIdle /\ PumpIdle

NextLLM ==
    \/ OnChunk
    \/ \E g \in HintIds : \E ok \in BOOLEAN : Response(g, ok)
    \/ \E g \in HintIds : \E kind \in {"token", "skip", "done"} : Line(g, kind)
    \/ \E g \in HintIds : StreamEnd(g)
    \/ \E g \in HintIds : StreamError(g)
    \/ \E g \in HintIds : PublishReturn(g)
    \/ \E m \in {"interview", "meeting"} : LlmSetMode(m)
    \/ \E b \in BOOLEAN : LlmSetHints(b)

SpecLLM == InitLLM /\ [][NextLLM]_vars

\* C4 as claimed: a generation that a chunk preempted in Interview mode at
\* any point while it was in flight has no HintCompleted published.
PreemptedNeverCompleted ==
    \A p \in preempted : p.hint \notin completed

\* C4 as amended: a generation that a chunk preempted in Interview mode
\* before its HintCompleted was published never has HintCompleted published.
PreemptedBeforeCompletionNeverCompleted ==
    \A p \in preempted : ~p.late => p.hint \notin completed

\* C4 witness: generation A was preempted before completing, has ended
\* without HintCompleted, and the chunk that preempted it was generated next
\* and completed.
PreemptWitness ==
    \E p \in preempted : \E g \in HintIds :
        /\ ~p.late
        /\ gens[p.hint].how = "cancelled"
        /\ p.hint \notin completed
        /\ gens[g].parent = p.hint
        /\ g \in completed

\* C5: at most one generation is in flight; the generating flag is set
\* exactly while one is, and current_hint_id names it; a chunk that arrived
\* during a generation is buffered, not started.
AtMostOneGeneration ==
    /\ Cardinality(GensInFlight) <= 1
    /\ generating <=> GensInFlight # {}
    /\ \A g \in GensInFlight : current_hint_id = g
    /\ pending_chunk # 0 => GensInFlight # {}
    /\ \A g \in HintIds : gens[g].pc # "none" => gens[g].chunk # pending_chunk

\* C5 witness: a chunk is buffered while a generation that itself was
\* started from the buffer is in flight.
OneGenerationWitness ==
    \E g \in GensInFlight : gens[g].parent # 0 /\ pending_chunk # 0

\* C6: whenever a generation ends (normally, cancelled, errored) while
\* pending_chunk is set, pending_chunk is cleared and a new generation for
\* exactly that chunk is in flight in the next state.
PendingStartedStep ==
    \A g \in HintIds :
        (gens[g].pc \in InFlight /\ gens'[g].pc \notin InFlight /\ pending_chunk # 0)
        => /\ pending_chunk' = 0
           /\ \E n \in HintIds :
                 /\ gens[n].pc = "none"
                 /\ gens'[n].pc = "stream"
                 /\ gens'[n].chunk = pending_chunk
                 /\ current_hint_id' = n
                 /\ generating'
PendingStartedNext == [][PendingStartedStep]_vars

\* C6 witness: a generation that ended cancelled (an Interview preemption)
\* and one that ended normally or with an error each had their pending
\* chunk started next.
PendingStartedWitness ==
    \A hows \in {{"cancelled"}, {"normal", "error"}} :
        \E g \in HintIds : \E n \in HintIds :
            /\ gens[g].how \in hows
            /\ gens[n].parent = g
            /\ gens[n].pc # "none"

\* the chunks that were buffered while generation g was in flight
BufferedDuring(g) == {b.chunk : b \in {x \in buffered : x.hint = g}}

Latest(cs) == CHOOSE c \in cs : \A d \in cs : d <= c

\* C20, the chunk's arrival: in Meeting mode a chunk that arrives during a
\* generation leaves the cancel flag as it is, replaces pending_chunk and
\* does not touch the generation in flight.
MeetingChunkStep ==
    (OnChunk /\ lmode = "meeting" /\ lhints /\ generating)
    => /\ cancel_event' = cancel_event
       /\ pending_chunk' = next_chunk
       /\ UNCHANGED <<generating, current_hint_id, gens>>

\* C20, afterwards: a generation ends cancelled only if an Interview-mode
\* chunk preempted it; the one buffered chunk is the latest that arrived
\* during the generation in flight; the generation started from the buffer
\* is for the latest chunk, and an overwritten chunk is never generated.
MeetingBufferInv ==
    /\ \A g \in HintIds :
          gens[g].how = "cancelled" => \E p \in preempted : p.hint = g
    /\ pending_chunk # 0 => pending_chunk = Latest(BufferedDuring(current_hint_id))
    /\ \A n \in HintIds :
          (gens[n].pc # "none" /\ gens[n].parent # 0)
          => gens[n].chunk = Latest(BufferedDuring(gens[n].parent))
    /\ \A b \in buffered :
          b.chunk # Latest(BufferedDuring(b.hint))
          => \A g \in HintIds : gens[g].pc # "none" => gens[g].chunk # b.chunk

Failed == {g \in HintIds : gens[g].how \in {"status", "error"}}

\* C21: when the upstream answers with a status other than 200, the
\* generation goes on to publish LlmError, and once it has ended it has no
\* HintCompleted and is counted in llm_errors.
NonOkStatusStep ==
    \A g \in HintIds :
        Response(g, FALSE) => gens'[g].pc = "errpub"

NonOkStatusReported ==
    /\ [](\A g \in HintIds : gens[g].how = "status" => g \notin completed)
    /\ [](llm_errors = Cardinality(Failed))
    /\ [][NonOkStatusStep]_vars

---------------------------------------------------------------------------
(* Aggregator and trigger state machine (services/orchestrator.py).         *)
(* Text is a sequence of one-character strings.  Three processes call into  *)
(* the orchestrator: the run() loop ("tick") and the receive loops of the   *)
(* microphone ("me") and system-audio ("them") STT clients, whose handlers  *)
(* run to their first suspension, the publish of TEXT_CHUNK_READY.          *)

QUESTION_WORDS ==
    << <<"w", "h", "a", "t">>,
       <<"w", "h", "y">>,
       <<"h", "o", "w">>,
       <<"w", "h", "e", "n">>,
       <<"w", "h", "e", "r", "e">>,
       <<"w", "h", "o">>,
       <<"w", "h", "i", "c", "h">>,
       <<"c", "a", "n", " ", "y", "o", "u">>,
       <<"c", "o", "u", "l", "d", " ", "y", "o", "u">>,
       <<"w", "o", "u", "l", "d", " ", "y", "o", "u">>,
       <<"t", "e", "l", "l", " ", "m", "e">>,
       <<"e", "x", "p", "l", "a", "i", "n">>,
       <<"d", "e", "s", "c", "r", "i", "b", "e">>,
       <<"w", "a", "l", "k", " ", "m", "e", " ", "t", "h", "r", "o", "u", "g", "h">>,
       <<"g", "i", "v", "e", " ", "m", "e", " ", "a", "n", " ", "e", "x", "a", "m", "p", "l", "e">> >>

UpperCase == <<"A", "B", "C", "D", "E", "F", "G", "H", "I", "J", "K", "L", "M",
               "N", "O", "P", "Q", "R", "S", "T", "U", "V", "W", "X", "Y", "Z">>
LowerCase == <<"a", "b", "c", "d", "e", "f", "g", "h", "i", "j", "k", "l", "m",
               "n", "o", "p", "q", "r", "s", "t", "u", "v", "w", "x", "y", "z">>
Digits == {"0", "1", "2", "3", "4", "5", "6", "7", "8", "9"}

\* str.split() and str.strip() whitespace
IsSpace(c) == c \in {" ", "\t", "\n", "\r"}

\* re.IGNORECASE: letters compare by their lower-case form
Lower(c) ==
    IF \E k \in 1..Len(UpperCase) : UpperCase[k] = c
    THEN LowerCase[CHOOSE k \in 1..Len(UpperCase) : UpperCase[k] = c]
    ELSE c

\* the regex class \w
IsWordChar(c) ==
    \/ \E k \in 1..Len(LowerCase) : LowerCase[k] = Lower(c)
    \/ c \in Digits
    \/ c = "_"

\* text.strip()
Strip(t) ==
    LET ink == {i \in 1..Len(t) : ~IsSpace(t[i])}
    IN IF ink = {} THEN <<>>
       ELSE SubSeq(t, CHOOSE i \in ink : \A j \in ink : i <= j,
                      CHOOSE i \in ink : \A j \in ink : i >= j)

\* the pattern without its trailing \b
MatchesPrefix(w, t) ==
    /\ Len(t) >= Len(w)
    /\ \A i \in 1..Len(w) : Lower(t[i]) = w[i]

\* re.compile("^" + w + "\b", re.IGNORECASE).search(t)
MatchesPattern(w, t) ==
    /\ Len(t) >= Len(w)
    /\ \A i \in 1..Len(w) : Lower(t[i]) = w[i]
    /\ Len(t) = Len(w) \/ ~IsWordChar(t[Len(w) + 1])

\* is_question(text)
IsQuestion(text) ==
    LET t == Strip(text)
    IN \/ \E i \in 1..Len(t) : t[i] = "?"
       \/ \E k \in 1..Len(QUESTION_WORDS) : MatchesPattern(QUESTION_WORDS[k], t)

\* len(text.split())
WordCount(t) ==
    Cardinality({i \in 1..Len(t) :
                    ~IsSpace(t[i]) /\ (i = 1 \/ IsSpace(t[i - 1]))})

\* Transcript texts the STT service delivers: a one-word delta that opens
\* with a question word, an eleven-word delta, and two completed transcripts.
DQ == <<"w", "h", "y", " ">>
D11 == <<"a", " ", "b", " ", "c", " ", "d", " ", "e", " ", "f", " ",
         "g", " ", "h", " ", "i", " ", "j", " ", "k", " ">>
CQ == <<"W", "h", "y", " ", "o", "k">>
CN == <<"o", "k">>
DeltaTexts == {DQ, D11}
CompletedTexts == {CQ, CN}

\* _on_mic_* handlers publish with Speaker.ME, _on_system_* with Speaker.THEM
SpeakerOf(p) == IF p = "me" THEN "ME" ELSE "THEM"

\* TextAggregator.should_trigger_word_count, on the pending text
WordTriggerAbove(pending) ==
    pending # <<>> /\ WordCount(pending) > AGGREGATION_WORD_THRESHOLD

ShouldTriggerWordCount(pending) ==
    pending # <<>> /\ WordCount(pending) >= AGGREGATION_WORD_THRESHOLD

\* TextAggregator.should_trigger_timeout
ShouldTriggerTimeout ==
    pending_text # <<>> /\ now - last_delta_time >= AGGREGATION_TIMEOUT_MS

\* _process_interview: the chunks it publishes
InterviewAdmitsAnyThem(chunk) == chunk.speaker = "THEM"

InterviewAdmits(chunk) == chunk.speaker = "THEM" /\ chunk.is_question

\* _process_meeting: the rate-limit test
RateLimitedNever(elapsed_ms) == FALSE

RateLimited(elapsed_ms) == elapsed_ms < HINT_RATE_LIMIT_MS

\* _process_chunk without its hints_enabled test
OutcomeIgnoringHints(chunk) ==
    IF omode = "interview"
    THEN IF InterviewAdmits(chunk) THEN "published" ELSE "filtered"
    ELSE IF chunk.speaker # "THEM" THEN "filtered"
         ELSE IF RateLimited(now - last_hint_time) THEN "rate_limited"
              ELSE "published"

\* _process_chunk: what becomes of a chunk
Outcome(chunk) ==
    IF ~ohints THEN "suppressed"
    ELSE IF omode = "interview"
         THEN IF InterviewAdmits(chunk) THEN "published" ELSE "filtered"
         ELSE IF chunk.speaker # "THEM" THEN "filtered"
              ELSE IF RateLimited(now - last_hint_time) THEN "rate_limited"
                   ELSE "published"

\* TextChunk(speaker, text, is_question) as built by get_pending_chunk and
\* _maybe_trigger
TextChunk(speaker, text) ==
    [speaker |-> speaker, text |-> text, is_question |-> IsQuestion(text)]

\* The effect of _process_chunk(chunk) up to its publish: the log entry,
\* and _last_hint_time, which only a Meeting publication moves.
Logged(chunk, src, seg) ==
    Append(dispatches, [time |-> now, mode |-> omode, src |-> src, seg |-> seg,
                        chunk |-> chunk, out |-> Outcome(chunk)])

HintTimeAfter(chunk) ==
    IF Outcome(chunk) = "published" /\ omode = "meeting" THEN now
    ELSE last_hint_time

\* deque(maxlen=20).append
HistoryAppend(h, seg) ==
    LET a == Append(h, seg)
    IN IF Len(a) > 20 THEN Tail(a) ELSE a

\* time passes
Advance ==
    /\ now + TimeStep <= StartTime + MaxTime
    /\ now' = now + TimeStep
    /\ UNCHANGED <<omode, ohints, cur_seg, minted, current_segments, history,
                   pending_text, pending_speaker, pending_segment_id,
                   last_delta_time, last_hint_time, opc, dispatches, nevents>>
    /\ UNCHANGED notOrch

\* RealtimeSTTClient._handle_message, input_audio_buffer.speech_started
SpeechStarted(p) ==
    /\ p \in {"me", "them"}
    /\ opc[p] = "idle"
    /\ nevents < MaxEvents
    /\ nevents' = nevents + 1
    /\ minted' = [minted EXCEPT ![SpeakerOf(p)] = @ + 1]
    /\ cur_seg' = [cur_seg EXCEPT ![SpeakerOf(p)] = <<SpeakerOf(p), minted[SpeakerOf(p)] + 1>>]
    /\ UNCHANGED <<now, omode, ohints, current_segments, history,
                   pending_text, pending_speaker, pending_segment_id,
                   last_delta_time, last_hint_time, opc, dispatches>>
    /\ UNCHANGED notOrch

\* A transcription delta of the open utterance: Orchestrator._on_delta, with
\* TextAggregator.add_delta and, at the word threshold, _trigger_from_pending
\* up to the publish (or through clear_pending when nothing is published).
OnDelta(p, text) ==
    /\ p \in {"me", "them"}
    /\ opc[p] = "idle"
    /\ nevents < MaxEvents
    /\ cur_seg[SpeakerOf(p)] # NoSeg
    /\ LET id == cur_seg[SpeakerOf(p)]
           old == IF id \in DOMAIN current_segments
                  THEN current_segments[id]
                  ELSE [speaker |-> SpeakerOf(p), text |-> <<>>]
           segment == [old EXCEPT !.text = @ \o text]
           chunk == TextChunk(segment.speaker, segment.text)
           fire == ShouldTriggerWordCount(segment.text)
           cleared == fire /\ Outcome(chunk) # "published"
       IN /\ current_segments' =
                 [i \in DOMAIN current_segments \cup {id} |->
                     IF i = id THEN segment ELSE current_segments[i]]
          /\ last_delta_time' = now
          /\ pending_text' = IF cleared THEN <<>> ELSE segment.text
          /\ pending_speaker' = IF cleared THEN "none" ELSE segment.speaker
          /\ pending_segment_id' = IF cleared THEN NoSeg ELSE id
          /\ dispatches' = IF fire THEN Logged(chunk, "words", id) ELSE dispatches
          /\ last_hint_time' = IF fire THEN HintTimeAfter(chunk) ELSE last_hint_time
          /\ opc' = IF fire /\ Outcome(chunk) = "published"
                    THEN [opc EXCEPT ![p] = "pub_pending"] ELSE opc
    /\ nevents' = nevents + 1
    /\ UNCHANGED <<now, omode, ohints, cur_seg, minted, history>>
    /\ UNCHANGED notOrch

\* A completed transcription: Orchestrator._on_completed, with
\* TextAggregator.complete_segment and _maybe_trigger up to the publish.
\* The STT client names the open utterance, or mints an id when none is open,
\* and forgets the utterance.
OnCompleted(p, text) ==
    /\ p \in {"me", "them"}
    /\ opc[p] = "idle"
    /\ nevents < MaxEvents
    /\ LET sp == SpeakerOf(p)
           fresh == cur_seg[sp] = NoSeg
           id == IF fresh THEN <<sp, minted[sp] + 1>> ELSE cur_seg[sp]
           segment == IF id \in DOMAIN current_segments
                      THEN [current_segments[id] EXCEPT !.text = text]
                      ELSE [speaker |-> sp, text |-> text]
           chunk == TextChunk(segment.speaker, segment.text)
           wasPending == pending_segment_id = id
       IN /\ minted' = IF fresh THEN [minted EXCEPT ![sp] = @ + 1] ELSE minted
          /\ cur_seg' = [cur_seg EXCEPT ![sp] = NoSeg]
          /\ current_segments' =
                 [i \in DOMAIN current_segments \ {id} |-> current_segments[i]]
          /\ history' = HistoryAppend(history, segment)
          /\ pending_text' = IF wasPending THEN <<>> ELSE pending_text
          /\ pending_speaker' = IF wasPending THEN "none" ELSE pending_speaker
          /\ pending_segment_id' = IF wasPending THEN NoSeg ELSE pending_segment_id
          /\ dispatches' = Logged(chunk, "completed", id)
          /\ last_hint_time' = HintTimeAfter(chunk)
          /\ opc' = IF Outcome(chunk) = "published"
                    THEN [opc EXCEPT ![p] = "pub_completed"] ELSE opc
    /\ nevents' = nevents + 1
    /\ UNCHANGED <<now, omode, ohints, last_delta_time>>
    /\ UNCHANGED notOrch

\* TextAggregator.clear_pending, as the three assignments it makes
ClearPending ==
    /\ pending_text' = <<>>
    /\ pending_speaker' = "none"
    /\ pending_segment_id' = NoSeg

\* One pass of the run() loop that finds should_trigger_timeout() true:
\* _trigger_from_pending up to the publish (or through clear_pending when
\* nothing is published).
TimeoutCheck ==
    /\ opc["tick"] = "idle"
    /\ ShouldTriggerTimeout
    /\ LET chunk == TextChunk(pending_speaker, pending_text)
       IN /\ dispatches' = Logged(chunk, "timeout", pending_segment_id)
          /\ last_hint_time' = HintTimeAfter(chunk)
          /\ IF Outcome(chunk) = "published"
             THEN /\ opc' = [opc EXCEPT !["tick"] = "pub_pending"]
                  /\ UNCHANGED <<pending_text, pending_speaker, pending_segment_id>>
             ELSE /\ ClearPending
                  /\ UNCHANGED opc
    /\ UNCHANGED <<now, omode, ohints, cur_seg, minted, current_segments,
                   history, last_delta_time, nevents>>
    /\ UNCHANGED notOrch

\* event_bus.publish(TEXT_CHUNK_READY) returns to the process suspended in
\* it.  _trigger_from_pending goes on to clear_pending(); _maybe_trigger has
\* nothing left to do.
OrchPublishReturn(p) ==
    /\ opc[p] # "idle"
    /\ opc' = [opc EXCEPT ![p] = "idle"]
    /\ IF opc[p] = "pub_pending"
       THEN ClearPending
       ELSE UNCHANGED <<pending_text, pending_speaker, pending_segment_id>>
    /\ UNCHANGED <<now, omode, ohints, cur_seg, minted, current_segments,
                   history, last_delta_time, last_hint_time, dispatches,
                   nevents>>
    /\ UNCHANGED notOrch

\* set_mode control message
OrchSetMode(m) ==
    /\ nevents < MaxEvents
    /\ omode # m
    /\ omode' = m
    /\ nevents' = nevents + 1
    /\ UNCHANGED <<now, ohints, cur_seg, minted, current_segments, history,
                   pending_text, pending_speaker, pending_segment_id,
                   last_delta_time, last_hint_time, opc, dispatches>>
    /\ UNCHANGED notOrch

\* pause_hints / resume_hints control messages
OrchSetHints(b) ==
    /\ nevents < MaxEvents
    /\ ohints # b
    /\ ohints' = b
    /\ nevents' = nevents + 1
    /\ UNCHANGED <<now, omode, cur_seg, minted, current_segments, history,
                   pending_text, pending_speaker, pending_segment_id,
                   last_delta_time, last_hint_time, opc, dispatches>>
    /\ UNCHANGED notOrch

\* The orchestrator starts on a session in either mode: a set_mode message
\* may be handled before start_session.
InitOrch ==
    /\ SessIdle /\ IngIdle /\ LlmIdle /\ OrchFresh /\ BusIdle /\ ConnIdle /\ SttIdle /\ PureIdle /\ HaltIdle /\ PumpIdle
    /\ omode \in {"interview", "meeting"}
    /\ ohints = TRUE

NextOrch ==
    \/ Advance
    \/ \E p \in {"me", "them"} : SpeechStarted(p)
    \/ \E p \in {"me", "them"} : \E text \in DeltaTexts : OnDelta(p, text)
    \/ \E p \in {"me", "them"} : \E text \in CompletedTexts : OnCompleted(p, text)
    \/ TimeoutCheck
    \/ \E p \in Procs : OrchPublishReturn(p)
    \/ \E m \in {"interview", "meeting"} : OrchSetMode(m)
    \/ \E b \in BOOLEAN : OrchSetHints(b)

SpecOrch == InitOrch /\ [][NextOrch]_vars

\* The TextChunkReady publications made in Meeting mode, as log positions.
MeetingPublications ==
    {i \in 1..Len(dispatches) :
        dispatches[i].mode = "meeting" /\ dispatches[i].out = "published"}

\* C7: in Meeting mode any two TextChunkReady publications are at least
\* HINT_RATE_LIMIT_MS apart whatever the trigger source, and a Them chunk
\* dispatched with hints enabled is published exactly when no Meeting
\* publication lies less than HINT_RATE_LIMIT_MS before it; otherwise it is
\* dropped for good, the dispatch ending unpublished.
MeetingRateLimit ==
    /\ \A i \in MeetingPublications : \A j \in MeetingPublications :
          i < j => dispatches[j].time - dispatches[i].time >= HINT_RATE_LIMIT_MS
    /\ \A j \in 1..Len(dispatches) :
          (/\ dispatches[j].mode = "meeting"
           /\ dispatches[j].chunk.speaker = "THEM"
           /\ dispatches[j].out # "suppressed")
          => /\ dispatches[j].out \in {"published", "rate_limited"}
             /\ dispatches[j].out = "rate_limited" <=>
                   \E i \in MeetingPublications :
                       /\ i < j
                       /\ dispatches[j].time - dispatches[i].time < HINT_RATE_LIMIT_MS

\* C7 witness: two Them completions less than 2000 ms apart of which only
\* the first was published, and a later chunk published 2000 ms or more
\* after the first.
MeetingRateLimitWitness ==
    \E i \in MeetingPublications : \E k \in MeetingPublications :
    \E j \in 1..Len(dispatches) :
        /\ i < j /\ j < k
        /\ dispatches[i].src = "completed" /\ dispatches[j].src = "completed"
        /\ dispatches[j].mode = "meeting" /\ dispatches[j].out = "rate_limited"
        /\ dispatches[k].time - dispatches[i].time >= HINT_RATE_LIMIT_MS

\* C8: every TextChunkReady published in Interview mode, whatever the trigger
\* source, carries a Them chunk whose text is a question.
InterviewOnlyThemQuestions ==
    \A i \in 1..Len(dispatches) :
        (dispatches[i].mode = "interview" /\ dispatches[i].out = "published")
        => /\ dispatches[i].chunk.speaker = "THEM"
           /\ dispatches[i].chunk.is_question
           /\ IsQuestion(dispatches[i].chunk.text)

\* C8 witness: in Interview mode a Me question and a Them non-question were
\* dispatched and not published, and a Them question was published from
\* pending.
InterviewWitness ==
    \E i \in 1..Len(dispatches) : \E j \in 1..Len(dispatches) :
    \E k \in 1..Len(dispatches) :
        /\ \A n \in {i, j, k} : dispatches[n].mode = "interview"
        /\ dispatches[i].chunk.speaker = "ME" /\ dispatches[i].chunk.is_question
        /\ dispatches[i].out = "filtered"
        /\ dispatches[j].chunk.speaker = "THEM" /\ ~dispatches[j].chunk.is_question
        /\ dispatches[j].out = "filtered"
        /\ dispatches[k].out = "published" /\ dispatches[k].src # "completed"

\* The step in which _trigger_from_pending's clear_pending() discards a
\* pending text that has been idle for AGGREGATION_TIMEOUT_MS and that the
\* Interview gate would let through.
TimedOutPendingStep ==
    \A p \in Procs :
        (/\ opc[p] = "pub_pending" /\ opc'[p] = "idle"
         /\ ShouldTriggerTimeout
         /\ ohints /\ omode = "interview"
         /\ pending_speaker = "THEM" /\ IsQuestion(pending_text))
        => \E i \in 1..Len(dispatches) :
              /\ dispatches[i].out = "published"
              /\ dispatches[i].src \in {"timeout", "words"}
              /\ dispatches[i].seg = pending_segment_id
              /\ dispatches[i].chunk.text = pending_text

\* C9: a pending text that is set and has been idle for at least
\* AGGREGATION_TIMEOUT_MS is published as a TextChunkReady before pending is
\* cleared (here for a Them question in Interview mode with hints enabled,
\* which no gate holds back).
TimedOutPendingPublished == [][TimedOutPendingStep]_vars

\* The step of a delta handler at the word threshold, and the step in which
\* a delta handler suspended in its publish completes.
WordThresholdStep ==
    \A p \in {"me", "them"} :
        LET id == cur_seg[SpeakerOf(p)]
            applied == /\ id # NoSeg
                       /\ id \in DOMAIN current_segments'
                       /\ \/ id \notin DOMAIN current_segments
                          \/ current_segments'[id].text # current_segments[id].text
        IN /\ (applied /\ WordCount(current_segments'[id].text) >= AGGREGATION_WORD_THRESHOLD)
              => /\ Len(dispatches') = Len(dispatches) + 1
                 /\ dispatches'[Len(dispatches')].src = "words"
                 /\ dispatches'[Len(dispatches')].time = now
                 /\ dispatches'[Len(dispatches')].chunk.text = current_segments'[id].text
                 /\ IF dispatches'[Len(dispatches')].out = "published"
                    THEN opc'[p] = "pub_pending"
                    ELSE opc'[p] = "idle" /\ pending_text' = <<>>
           /\ (applied /\ WordCount(current_segments'[id].text) < AGGREGATION_WORD_THRESHOLD)
              => /\ dispatches' = dispatches
                 /\ pending_text' = current_segments'[id].text
           /\ (opc[p] = "pub_pending" /\ opc'[p] = "idle")
              => /\ pending_text' = <<>>
                 /\ pending_speaker' = "none"
                 /\ pending_segment_id' = NoSeg

\* C10: when a delta has been applied and pending then has at least
\* AGGREGATION_WORD_THRESHOLD whitespace-separated words, a trigger from
\* pending is dispatched in that same step, and pending is empty when the
\* delta handler completes; below the threshold nothing is dispatched.
WordThresholdFiresNow == [][WordThresholdStep]_vars

\* C10 witness: a delta brought pending to exactly 12 words, the chunk was
\* published, and the handler has completed leaving pending empty.
WordThresholdWitness ==
    /\ dispatches # <<>>
    /\ dispatches[Len(dispatches)].src = "words"
    /\ dispatches[Len(dispatches)].out = "published"
    /\ WordCount(dispatches[Len(dispatches)].chunk.text) = AGGREGATION_WORD_THRESHOLD
    /\ \A p \in Procs : opc[p] = "idle"
    /\ pending_text = <<>>

---------------------------------------------------------------------------
(* The TextAggregator on its own (services/orchestrator.py, lines 76-202),  *)
(* driven through its methods with any event, as its callers and            *)
(* tests/test_orchestrator.py drive it.  A segment id is a pair whose first *)
(* component is the speaker of the events that carry it.                    *)

\* A twelve-word delta that ends inside its last word.
D12 == D11 \o <<"l">>
AggDeltaTexts == DeltaTexts \cup {D12}
AggSegIds == {<<sp, 1>> : sp \in Speakers}

\* add_delta: segment.text += event.text
DeltaTextOnly(old, text) == text

SegmentText(old, text) == old \o text

\* the text of the open segment id ("" when add_delta would create it)
OpenText(id) ==
    IF id \in DOMAIN current_segments THEN current_segments[id].text ELSE <<>>

\* the ids that complete_segment has put into history
CompletedIds == {history[i].segment_id : i \in 1..Len(history)}

\* TextAggregator.add_delta(event)
AddDelta(id, text) ==
    /\ nevents < MaxEvents
    /\ LET old == IF id \in DOMAIN current_segments
                  THEN current_segments[id]
                  ELSE [speaker |-> id[1], text |-> <<>>]
           segment == [old EXCEPT !.text = SegmentText(@, text)]
       IN /\ current_segments' =
                 [i \in DOMAIN current_segments \cup {id} |->
                     IF i = id THEN segment ELSE current_segments[i]]
          /\ last_delta_time' = now
          /\ pending_text' = segment.text
          /\ pending_speaker' = segment.speaker
          /\ pending_segment_id' = id
    /\ nevents' = nevents + 1
    /\ UNCHANGED <<now, omode, ohints, cur_seg, minted, history,
                   last_hint_time, opc, dispatches>>
    /\ UNCHANGED notOrch

\* TextAggregator.complete_segment(event)
CompleteSegment(id, text) ==
    /\ nevents < MaxEvents
    /\ LET segment == IF id \in DOMAIN current_segments
                      THEN [current_segments[id] EXCEPT !.text = text]
                      ELSE [speaker |-> id[1], text |-> text]
           wasPending == pending_segment_id = id
       IN /\ current_segments' =
                 [i \in DOMAIN current_segments \ {id} |-> current_segments[i]]
          /\ history' = HistoryAppend(history,
                 [speaker |-> segment.speaker, text |-> segment.text,
                  segment_id |-> id])
          /\ pending_text' = IF wasPending THEN <<>> ELSE pending_text
          /\ pending_speaker' = IF wasPending THEN "none" ELSE pending_speaker
          /\ pending_segment_id' = IF wasPending THEN NoSeg ELSE pending_segment_id
    /\ nevents' = nevents + 1
    /\ UNCHANGED <<now, omode, ohints, cur_seg, minted, last_delta_time,
                   last_hint_time, opc, dispatches>>
    /\ UNCHANGED notOrch

\* TextAggregator.clear_pending()
AggClearPending ==
    /\ pending_text # <<>>
    /\ ClearPending
    /\ UNCHANGED <<now, omode, ohints, cur_seg, minted, current_segments,
                   history, last_delta_time, last_hint_time, opc, dispatches,
                   nevents>>
    /\ UNCHANGED notOrch

InitAgg == SessIdle /\ IngIdle /\ LlmIdle /\ OrchIdle /\ BusIdle /\ ConnIdle /\ SttIdle /\ PureIdle /\ HaltIdle /\ PumpIdle

NextAgg ==
    \/ \E id \in AggSegIds : \E text \in AggDeltaTexts : AddDelta(id, text)
    \/ \E id \in AggSegIds : \E text \in CompletedTexts : CompleteSegment(id, text)
    \/ AggClearPending

SpecAgg == InitAgg /\ [][NextAgg]_vars

\* C11 as claimed: after add_delta, should_trigger_word_count() is true
\* exactly when the delta's own text splits into at least 12 tokens.
WordTriggerFollowsDeltaStep ==
    \A id \in AggSegIds : \A text \in AggDeltaTexts :
        AddDelta(id, text)
        => (ShouldTriggerWordCount(pending_text')
               <=> WordCount(text) >= AGGREGATION_WORD_THRESHOLD)
WordTriggerFollowsDelta == [][WordTriggerFollowsDeltaStep]_vars

\* C11 as amended: after add_delta, should_trigger_word_count() is true
\* exactly when the text accumulated for the delta's segment id, this delta
\* included, splits into at least 12 tokens; so it is true after every delta
\* of at least 12 tokens, and false after a delta of fewer than 12 tokens
\* that opens its segment.
WordTriggerFollowsSegmentStep ==
    \A id \in AggSegIds : \A text \in AggDeltaTexts :
        AddDelta(id, text)
        => /\ ShouldTriggerWordCount(pending_text')
                 <=> WordCount(OpenText(id) \o text) >= AGGREGATION_WORD_THRESHOLD
           /\ WordCount(text) >= AGGREGATION_WORD_THRESHOLD
                 => ShouldTriggerWordCount(pending_text')
           /\ (OpenText(id) = <<>> /\ WordCount(text) < AGGREGATION_WORD_THRESHOLD)
                 => ~ShouldTriggerWordCount(pending_text')
WordTriggerFollowsSegment == [][WordTriggerFollowsSegmentStep]_vars

\* C11 witness: a one-word delta after an eleven-word delta of the same
\* segment has brought pending to twelve words, and the trigger test is true.
WordTriggerWitness ==
    /\ pending_text = D11 \o DQ
    /\ ShouldTriggerWordCount(pending_text)
    /\ \E id \in AggSegIds : OpenText(id) = pending_text

\* A step taken while hints_enabled is false publishes nothing: every
\* dispatch it logs is suppressed and no process enters a publish.
NoPublishWhileHintsOffStep ==
    ~ohints
    => /\ Len(dispatches') >= Len(dispatches)
       /\ \A i \in (Len(dispatches) + 1)..Len(dispatches') :
             dispatches'[i].out = "suppressed"
       /\ \A p \in Procs : opc[p] = "idle" => opc'[p] = "idle"
       /\ last_hint_time' = last_hint_time

\* C12: while hints_enabled is false the orchestrator publishes no
\* TextChunkReady, in either mode and whatever the trigger source.
NoPublishWhileHintsOff == [][NoPublishWhileHintsOffStep]_vars

\* C12 witness: with hints disabled in Meeting mode, a completed segment and
\* a trigger from pending were both dispatched and suppressed.
HintsOffWitness ==
    /\ ~ohints
    /\ \E i \in 1..Len(dispatches) : \E j \in 1..Len(dispatches) :
          /\ dispatches[i].out = "suppressed" /\ dispatches[j].out = "suppressed"
          /\ dispatches[i].mode = "meeting" /\ dispatches[j].mode = "meeting"
          /\ dispatches[i].chunk.speaker = "THEM"
          /\ dispatches[j].chunk.speaker = "THEM"
          /\ dispatches[i].src = "completed"
          /\ dispatches[j].src \in {"timeout", "words"}

\* The step of add_delta for a segment id that complete_segment has already
\* put into history, and what every step does to the completed segments.
LateDeltaStep ==
    /\ \A i \in 1..Len(history) : i <= Len(history') /\ history'[i] = history[i]
    /\ \A id \in AggSegIds : \A text \in AggDeltaTexts :
          (AddDelta(id, text) /\ id \in CompletedIds)
          => /\ current_segments' = current_segments
             /\ pending_text' = pending_text
             /\ pending_speaker' = pending_speaker
             /\ pending_segment_id' = pending_segment_id

\* C13: the text of a completed segment never changes, and a delta for a
\* segment id that has been completed is discarded: it opens no segment and
\* leaves pending as it was.
LateDeltaDiscarded == [][LateDeltaStep]_vars

---------------------------------------------------------------------------
(* Event bus (utils/event_bus.py), one topic.  Two publishers (the receive  *)
(* loops of the two STT clients) publish to it; publish creates one         *)
(* _safe_call task per subscribed handler and awaits them all.  The event   *)
(* loop enters created tasks in creation order.  An event is named by its   *)
(* position in bus_pub, a task by its position in bus_tasks.                *)

RemoveHandler(hs, h) == SelectSeq(hs, LAMBDA x : x # h)

Subscribed(h) == \E i \in 1..Len(bus_handlers) : bus_handlers[i] = h

ReadyTasks == {i \in 1..Len(bus_tasks) : bus_tasks[i].st = "ready"}

TasksOf(e) == {i \in 1..Len(bus_tasks) : bus_tasks[i].ev = e}

\* the task the event loop enters next: tasks are entered in creation order
LastReady == CHOOSE i \in ReadyTasks : \A j \in ReadyTasks : i >= j

FirstReady == CHOOSE i \in ReadyTasks : \A j \in ReadyTasks : i <= j

\* _safe_call: where a handler's first step or resumption leaves its task.
\* A raised exception is caught and logged, and the task ends normally.
SafeCallUncaught(out) ==
    [st |-> IF out = "raised" THEN "exc" ELSE out, logged |-> FALSE]

SafeCall(out) ==
    [st |-> IF out = "raised" THEN "ok" ELSE out, logged |-> out = "raised"]

\* EventBus.subscribe, called once by the handler's owner when it starts
BusSubscribe(h) ==
    /\ ~Subscribed(h)
    /\ h \notin bus_gone
    /\ bus_handlers' = Append(bus_handlers, h)
    /\ UNCHANGED <<bus_gone, bus_pub, bus_tasks, bus_wait, bus_started, bus_finished,
                   bus_logged, bus_returned>>
    /\ UNCHANGED notBus

\* EventBus.unsubscribe, called by the handler's owner in its cleanup
BusUnsubscribe(h) ==
    /\ Subscribed(h)
    /\ bus_handlers' = RemoveHandler(bus_handlers, h)
    /\ bus_gone' = bus_gone \cup {h}
    /\ UNCHANGED <<bus_pub, bus_tasks, bus_wait, bus_started, bus_finished,
                   bus_logged, bus_returned>>
    /\ UNCHANGED notBus

\* only the first subscriber
SnapshotFirst(hs) == SubSeq(hs, 1, IF hs = <<>> THEN 0 ELSE 1)

\* handlers = list(self._handlers[event_type]), taken under the bus lock
Snapshot(hs) == hs

\* EventBus.publish up to its gather: the snapshot of the handlers and one
\* task per handler; with no handler it returns at once.
BusPublish(p) ==
    /\ bus_wait[p] = 0
    /\ Len(bus_pub) < MaxBusEvents
    /\ Len(bus_tasks) + Len(bus_handlers) <= MaxBusTasks
    /\ LET e == Len(bus_pub) + 1
           handlers == Snapshot(bus_handlers)
       IN /\ bus_pub' = Append(bus_pub, p)
          /\ bus_tasks' = bus_tasks \o
                 [k \in 1..Len(handlers) |->
                     [ev |-> e, h |-> handlers[k], st |-> "ready"]]
          /\ IF handlers = <<>>
             THEN bus_returned' = bus_returned \cup {e} /\ UNCHANGED bus_wait
             ELSE bus_wait' = [bus_wait EXCEPT ![p] = e] /\ UNCHANGED bus_returned
    /\ UNCHANGED <<bus_handlers, bus_gone, bus_started, bus_finished, bus_logged>>
    /\ UNCHANGED notBus

\* The event loop enters the next created task: the handler runs to its end
\* ("ok"), to its first suspension, or raises.
BusRunTask(out) ==
    /\ ReadyTasks # {}
    /\ LET i == FirstReady
           r == SafeCall(out)
       IN /\ bus_tasks' = [bus_tasks EXCEPT ![i].st = r.st]
          /\ bus_started' = Append(bus_started, i)
          /\ bus_finished' = IF r.st = "suspended" THEN bus_finished
                             ELSE Append(bus_finished, i)
          /\ bus_logged' = IF r.logged THEN bus_logged \cup {i} ELSE bus_logged
    /\ UNCHANGED <<bus_handlers, bus_gone, bus_pub, bus_wait, bus_returned>>
    /\ UNCHANGED notBus

\* A suspended handler is resumed and runs to its end or raises.
BusResume(i, out) ==
    /\ i \in 1..Len(bus_tasks)
    /\ bus_tasks[i].st = "suspended"
    /\ LET r == SafeCall(out)
       IN /\ bus_tasks' = [bus_tasks EXCEPT ![i].st = r.st]
          /\ bus_finished' = Append(bus_finished, i)
          /\ bus_logged' = IF r.logged THEN bus_logged \cup {i} ELSE bus_logged
    /\ UNCHANGED <<bus_handlers, bus_gone, bus_pub, bus_wait, bus_started,
                   bus_returned>>
    /\ UNCHANGED notBus

\* gather(*tasks, return_exceptions=True) completes when every task of the
\* event has ended, however it ended, and publish returns.
BusGatherReturn(p) ==
    /\ bus_wait[p] # 0
    /\ \A i \in TasksOf(bus_wait[p]) : bus_tasks[i].st \in {"ok", "exc"}
    /\ bus_returned' = bus_returned \cup {bus_wait[p]}
    /\ bus_wait' = [bus_wait EXCEPT ![p] = 0]
    /\ UNCHANGED <<bus_handlers, bus_gone, bus_pub, bus_tasks, bus_started,
                   bus_finished, bus_logged>>
    /\ UNCHANGED notBus

InitBus == SessIdle /\ IngIdle /\ LlmIdle /\ OrchIdle /\ BusIdle /\ ConnIdle /\ SttIdle /\ PureIdle /\ HaltIdle /\ PumpIdle

NextBus ==
    \/ \E h \in BusHandlers : BusSubscribe(h)
    \/ \E h \in BusHandlers : BusUnsubscribe(h)
    \/ \E p \in Publishers : BusPublish(p)
    \/ \E out \in {"ok", "suspended", "raised"} : BusRunTask(out)
    \/ \E i \in 1..Len(bus_tasks) : \E out \in {"ok", "raised"} : BusResume(i, out)
    \/ \E p \in Publishers : BusGatherReturn(p)

SpecBus == InitBus /\ [][NextBus]_vars

\* x occurs in the log, and before y
InLog(log, x) == \E k \in 1..Len(log) : log[k] = x

Before(log, x, y) ==
    \E k \in 1..Len(log) : \E m \in 1..Len(log) :
        k < m /\ log[k] = x /\ log[m] = y

\* pairs of tasks of one subscriber, the first for the earlier publication
EarlierLater ==
    {<<i, j>> \in (1..Len(bus_tasks)) \X (1..Len(bus_tasks)) :
        bus_tasks[i].h = bus_tasks[j].h /\ bus_tasks[i].ev < bus_tasks[j].ev}

\* C14 as claimed: each subscriber handles the events of the topic in
\* publication order; the handling of a later event never ends before the
\* handling of an earlier one, also when the earlier handler suspends.
HandledInPublicationOrder ==
    \A t \in EarlierLater :
        /\ InLog(bus_started, t[2])
              => InLog(bus_started, t[1]) /\ Before(bus_started, t[1], t[2])
        /\ InLog(bus_finished, t[2])
              => InLog(bus_finished, t[1]) /\ Before(bus_finished, t[1], t[2])

\* C14 as amended: each subscriber's handler is entered for the events of
\* the topic in publication order, also with two concurrent publishers.
EnteredInPublicationOrder ==
    \A t \in EarlierLater :
        InLog(bus_started, t[2])
        => InLog(bus_started, t[1]) /\ Before(bus_started, t[1], t[2])

\* C14 witness: two publishers have published concurrently, a subscriber's
\* handler is suspended in the earlier event, and the same subscriber has
\* been entered for the later event and has ended it.
EnteredInOrderWitness ==
    \E t \in EarlierLater :
        /\ bus_pub[bus_tasks[t[1]].ev] # bus_pub[bus_tasks[t[2]].ev]
        /\ \A p \in Publishers : bus_wait[p] # 0
        /\ bus_tasks[t[1]].st = "suspended"
        /\ bus_tasks[t[2]].st = "ok"
        /\ Before(bus_started, t[1], t[2])

\* C15: no handler exception escapes its _safe_call task (it is logged and
\* the task ends normally), and a publish returns to its publisher only
\* when every handler of its snapshot has run to its end, whether or not
\* another handler of the same event raised.
PublishSurvivesHandlerError ==
    /\ \A i \in 1..Len(bus_tasks) : bus_tasks[i].st # "exc"
    /\ \A i \in bus_logged : bus_tasks[i].st = "ok"
    /\ \A e \in bus_returned : \A i \in TasksOf(e) : bus_tasks[i].st = "ok"
    /\ \A p \in Publishers : bus_wait[p] # 0 => bus_wait[p] \notin bus_returned

\* C15 witness: of the two handlers of one event the first raised, the
\* second suspended and later ran to its end, and the publish has returned.
HandlerErrorWitness ==
    \E e \in bus_returned : \E i \in TasksOf(e) : \E j \in TasksOf(e) :
        /\ i \in bus_logged
        /\ j \notin bus_logged
        /\ bus_tasks[j].st = "ok"
        /\ Before(bus_finished, i, j)
        /\ Before(bus_started, i, j)

\* the handlers that have a task of event e
HandlersOf(e) == {bus_tasks[i].h : i \in TasksOf(e)}

\* a publish gives the new event one task for each handler subscribed at
\* that moment; no step gives an event published earlier another task or
\* another handler; only created tasks are entered
SnapshotStep ==
    /\ \A p \in Publishers :
          BusPublish(p) =>
            LET e == Len(bus_pub) + 1
                new == {i \in 1..Len(bus_tasks') : bus_tasks'[i].ev = e}
            IN /\ {bus_tasks'[i].h : i \in new} = {h \in BusHandlers : Subscribed(h)}
               /\ Cardinality(new) = Len(bus_handlers)
    /\ \A e \in 1..Len(bus_pub) :
          /\ {i \in 1..Len(bus_tasks') : bus_tasks'[i].ev = e} = TasksOf(e)
          /\ \A i \in TasksOf(e) : bus_tasks'[i].h = bus_tasks[i].h
    /\ \A k \in 1..Len(bus_started') : bus_started'[k] \in 1..Len(bus_tasks)

\* a publish that has returned has entered every task of its event
SnapshotInv ==
    \A e \in bus_returned : \A i \in TasksOf(e) : InLog(bus_started, i)

\* C29: publish invokes exactly the handlers subscribed when it takes its
\* snapshot; a handler subscribed while the dispatch is running gets no
\* invocation for that publish.
PublishToSnapshot == []SnapshotInv /\ [][SnapshotStep]_vars

\* C29 witness: an event whose publish has returned after entering its
\* handler, while another handler, subscribed since the snapshot was taken,
\* has no task of that event.
PublishToSnapshotWitness ==
    \E e \in bus_returned : \E h \in BusHandlers :
        /\ HandlersOf(e) # {}
        /\ Subscribed(h)
        /\ h \notin HandlersOf(e)

---------------------------------------------------------------------------
(* One connection handler (routes/websocket.py, ConnectionHandler) from     *)
(* accept to the end of handle, with its session and the bus subscriptions. *)
(* With a single connection the supervisor lock is never contended and the  *)
(* handler's session is the supervisor's current session.  The bus holds    *)
(* the handler's four bound methods ("ws") and, while the pipeline runs,    *)
(* the orchestrator's two ("orch").                                         *)

OrchTopics == {"transcript_delta", "transcript_completed"}

TStart == "{\"type\": \"start_session\"}"
TStop == "{\"type\": \"stop_session\"}"
TPause == "{\"type\": \"pause_hints\"}"
TResume == "{\"type\": \"resume_hints\"}"
TMeeting == "{\"type\": \"set_mode\", \"mode\": \"meeting_assistant\"}"
TKaraoke == "{\"type\": \"set_mode\", \"mode\": \"karaoke\"}"
TPing == "{\"type\": \"ping\"}"
TNotJson == "not json"
TOpenBrace == "{\"type\": "
TArray == "[]"

ControlTexts == {TStart, TStop, TPause, TResume, TMeeting, TKaraoke, TPing,
                 TNotJson, TOpenBrace, TArray}

\* json.loads on the texts above: an object with its "type" and "mode"
\* members, another JSON value, or JSONDecodeError.
JsonLoads(text) ==
    CASE text = TStart -> [kind |-> "object", type |-> "start_session", mode |-> "none"]
      [] text = TStop -> [kind |-> "object", type |-> "stop_session", mode |-> "none"]
      [] text = TPause -> [kind |-> "object", type |-> "pause_hints", mode |-> "none"]
      [] text = TResume -> [kind |-> "object", type |-> "resume_hints", mode |-> "none"]
      [] text = TMeeting -> [kind |-> "object", type |-> "set_mode", mode |-> "meeting_assistant"]
      [] text = TKaraoke -> [kind |-> "object", type |-> "set_mode", mode |-> "karaoke"]
      [] text = TPing -> [kind |-> "object", type |-> "ping", mode |-> "none"]
      [] text = TArray -> [kind |-> "array", type |-> "none", mode |-> "none"]
      [] OTHER -> [kind |-> "JSONDecodeError", type |-> "none", mode |-> "none"]

\* The exception the body of _handle_control raises on a text: json.loads
\* fails, or data.get is looked up on a value that is not a dict.
ControlRaises(text) ==
    CASE JsonLoads(text).kind = "JSONDecodeError" -> "JSONDecodeError"
      [] JsonLoads(text).kind = "array" -> "AttributeError"
      [] OTHER -> "none"

\* A _handle_control without its except clause.
CatchesNothing(exc) == FALSE

\* _handle_control catches json.JSONDecodeError and nothing else.
HandleControlCatches(exc) == exc = "JSONDecodeError"

\* SessionMode(mode): the enum member, or ValueError ("none").
SessionModeOf(mode) ==
    CASE mode = "interview_assistant" -> "interview"
      [] mode = "meeting_assistant" -> "meeting"
      [] OTHER -> "none"

\* EventBus.subscribe on one topic's handler list.
AddHandler(hs, h) ==
    IF \E i \in 1..Len(hs) : hs[i] = h THEN hs ELSE Append(hs, h)

OnTopic(t, h) == \E i \in 1..Len(subs[t]) : subs[t][i] = h

\* Session.cancel_tasks on the pipeline: the orchestrator task's finally
\* block unsubscribes its two handlers.
WithoutOrch(ss) ==
    [t \in ConnTopics |-> IF t \in OrchTopics THEN RemoveHandler(ss[t], "orch") ELSE ss[t]]

\* A _cleanup that forgets the hint topics.
CleanupTranscriptOnly == OrchTopics

\* the topics _cleanup unsubscribes the handler's methods from
CleanupTopics == ConnTopics

\* ConnectionHandler._cleanup: four unsubscribes, then destroy_session for
\* the handler's session, which stops it unless it is already Stopped.
Cleanup(path) ==
    LET left == [t \in ConnTopics |->
                    IF t \in CleanupTopics THEN RemoveHandler(subs[t], "ws") ELSE subs[t]]
    IN /\ cpc' = "closed"
       /\ exit_path' = path
       /\ IF has_session
          THEN /\ destroy_req' = TRUE
               /\ IF AlreadyStopped(cstate)
                  THEN /\ subs' = left
                       /\ UNCHANGED <<cstate, ctasks>>
                  ELSE /\ cstate' = "stopped"
                       /\ ctasks' = 0
                       /\ subs' = WithoutOrch(left)
          ELSE /\ subs' = left
               /\ UNCHANGED <<destroy_req, cstate, ctasks>>

\* handle up to the message loop: create_session, _subscribe_events,
\* _send_status.
ConnOpen ==
    /\ cpc = "new"
    /\ cpc' = "open"
    /\ has_session' = TRUE
    /\ cstate' = "created"
    /\ subs' = [t \in ConnTopics |-> AddHandler(subs[t], "ws")]
    /\ UNCHANGED <<cmode, chints, ctasks, destroy_req, errors_sent, exit_path, inbox>>
    /\ UNCHANGED notConn

\* A text message: _handle_control, and when it raises, handle's except
\* clause (error frame) and _cleanup.
ConnControl(text) ==
    /\ cpc = "open"
    /\ Len(inbox) < MaxMsgs
    /\ inbox' = Append(inbox, text)
    /\ LET data == JsonLoads(text)
           exc == ControlRaises(text)
       IN IF exc # "none"
          THEN IF HandleControlCatches(exc)
               THEN /\ errors_sent' = errors_sent + 1
                    /\ UNCHANGED <<cpc, has_session, cstate, cmode, chints, ctasks,
                                   subs, destroy_req, exit_path>>
               ELSE /\ errors_sent' = errors_sent + 1
                    /\ Cleanup("exception")
                    /\ UNCHANGED <<has_session, cmode, chints>>
          ELSE CASE data.type = "start_session" ->
                      /\ cstate' = StartSessionState(cstate)
                      /\ ctasks' = ctasks + 3
                      /\ UNCHANGED <<cpc, has_session, cmode, chints, subs,
                                     destroy_req, errors_sent, exit_path>>
                 [] data.type = "stop_session" ->
                      /\ IF AlreadyStopped(cstate)
                         THEN UNCHANGED <<cstate, ctasks, subs>>
                         ELSE /\ cstate' = "stopped"
                              /\ ctasks' = 0
                              /\ subs' = WithoutOrch(subs)
                      /\ UNCHANGED <<cpc, has_session, cmode, chints,
                                     destroy_req, errors_sent, exit_path>>
                 [] data.type \in {"pause_hints", "resume_hints"} ->
                      /\ chints' = (data.type = "resume_hints")
                      /\ UNCHANGED <<cpc, has_session, cstate, cmode, ctasks, subs,
                                     destroy_req, errors_sent, exit_path>>
                 [] data.type = "set_mode" ->
                      /\ cmode' = IF SessionModeOf(data.mode) = "none"
                                  THEN cmode ELSE SessionModeOf(data.mode)
                      /\ UNCHANGED <<cpc, has_session, cstate, chints, ctasks, subs,
                                     destroy_req, errors_sent, exit_path>>
                 [] OTHER ->
                      UNCHANGED <<cpc, has_session, cstate, cmode, chints, ctasks,
                                  subs, destroy_req, errors_sent, exit_path>>
    /\ UNCHANGED notConn

\* The client closes: receive returns a websocket.disconnect message and
\* the loop breaks, or a receive or send raises WebSocketDisconnect.
ConnDisconnect(path) ==
    /\ cpc = "open"
    /\ path \in {"disconnect", "WebSocketDisconnect"}
    /\ Cleanup(path)
    /\ UNCHANGED <<has_session, cmode, chints, errors_sent, inbox>>
    /\ UNCHANGED notConn

\* Orchestrator.run of a started pipeline subscribes its two handlers.
OrchRunSubscribe ==
    /\ cstate = "active"
    /\ ctasks > 0
    /\ \E t \in OrchTopics : ~OnTopic(t, "orch")
    /\ subs' = [t \in ConnTopics |->
                   IF t \in OrchTopics THEN AddHandler(subs[t], "orch") ELSE subs[t]]
    /\ UNCHANGED <<cpc, has_session, cstate, cmode, chints, ctasks, destroy_req,
                   errors_sent, exit_path, inbox>>
    /\ UNCHANGED notConn

InitConn == SessIdle /\ IngIdle /\ LlmIdle /\ OrchIdle /\ BusIdle /\ ConnIdle /\ SttIdle /\ PureIdle /\ HaltIdle /\ PumpIdle

NextConn ==
    \/ ConnOpen
    \/ \E text \in ControlTexts : ConnControl(text)
    \/ \E path \in {"disconnect", "WebSocketDisconnect"} : ConnDisconnect(path)
    \/ OrchRunSubscribe

SpecConn == InitConn /\ [][NextConn]_vars

\* C18: once handle has returned, by whichever exit path, none of the
\* handler's four methods is subscribed on any topic and destroy_session
\* has been called for its session.
CleanupUnsubscribesAndDestroys ==
    cpc = "closed" =>
        /\ exit_path \in {"disconnect", "WebSocketDisconnect", "exception"}
        /\ \A t \in ConnTopics : ~OnTopic(t, "ws")
        /\ has_session /\ destroy_req

\* C18 witness: the handler left through the exception path (a text whose
\* JSON value is not an object) while the pipeline was running.
CleanupAfterExceptionWitness ==
    /\ cpc = "closed"
    /\ exit_path = "exception"
    /\ errors_sent = 1
    /\ Len(inbox) = 2
    /\ inbox[1] = TStart
    /\ inbox[2] = TArray
    /\ cstate = "stopped"

\* C19: a text that is not valid JSON sends one error frame, keeps the
\* handler in its message loop and changes nothing of the session, its
\* tasks or the subscriptions; a start_session handled right after it on a
\* Created session makes the session Active.
InvalidJsonStep ==
    \A text \in ControlTexts :
        ConnControl(text) =>
            /\ JsonLoads(text).kind = "JSONDecodeError" =>
                 /\ errors_sent' = errors_sent + 1
                 /\ cpc' = "open"
                 /\ UNCHANGED <<has_session, cstate, cmode, chints, ctasks, subs,
                                destroy_req, exit_path>>
            /\ ( /\ text = TStart
                 /\ inbox # <<>>
                 /\ JsonLoads(inbox[Len(inbox)]).kind = "JSONDecodeError"
                 /\ cstate = "created" ) => cstate' = "active"

InvalidJsonKeepsConnection == [][InvalidJsonStep]_vars

\* C19 witness: "not json" then start_session on the Created session: one
\* error frame was sent, the handler is in its loop, the session is Active.
InvalidJsonWitness ==
    /\ inbox = <<TNotJson, TStart>>
    /\ errors_sent = 1
    /\ cpc = "open"
    /\ cstate = "active"
    /\ ctasks = 3

---------------------------------------------------------------------------
(* STT service (services/stt_service.py): STTService.run with its two       *)
(* RealtimeSTTClients.  A client's receive loop awaits _handle_message for  *)
(* one upstream message before it reads the next, so a message is one step. *)
(* uuid4() is a value not returned before: the n-th id a client mints is n. *)
(* An emitted event records its segment id and the position in the          *)
(* client's receive log of the message that caused it.                      *)

MaxSttMsgs == 4

\* upstream message types; the text of a delta or a completion may be empty
UpstreamTypes == {"speech_started", "delta", "completed", "completed_empty", "error"}

\* A run that goes on when one client connected.
EitherConnected(mic, system) == mic \/ system

\* STTService.run: `if not mic_connected or not system_connected` fails.
BothConnected(mic, system) == mic /\ system

\* A completion that leaves the segment id in place.
SegmentKept(cur) == cur

\* _handle_message, completed: `self._current_segment_id = None`.
SegmentAfterCompleted(cur) == 0

\* RealtimeSTTClient.disconnect, called by connect on failure and by
\* STTService._cleanup on both clients.
Disconnected(c) == IF c = "connected" THEN "closed" ELSE c

\* STTService._cleanup.
SttCleanup ==
    /\ stt_client' = [sp \in Speakers |-> Disconnected(stt_client[sp])]
    /\ stt_pc' = "done"

\* RealtimeSTTClient.connect of the microphone client (ME), then of the
\* system-audio client (THEM); after the second, run either publishes
\* STT_ERROR or starts the two audio tasks.
SttConnect(sp, ok) ==
    /\ \/ stt_pc = "connect_mic" /\ sp = "ME"
       \/ stt_pc = "connect_system" /\ sp = "THEM"
    /\ LET clients == [stt_client EXCEPT ![sp] = IF ok THEN "connected" ELSE "failed"]
       IN /\ stt_client' = clients
          /\ IF sp = "ME"
             THEN /\ stt_pc' = "connect_system"
                  /\ UNCHANGED <<stt_pumps, stt_published>>
             ELSE IF BothConnected(clients["ME"] = "connected", clients["THEM"] = "connected")
                  THEN /\ stt_pc' = "running"
                       /\ stt_pumps' = "running"
                       /\ UNCHANGED stt_published
                  ELSE /\ stt_pc' = "errpub"
                       /\ stt_published' = Append(stt_published, "connect")
                       /\ UNCHANGED stt_pumps
    /\ UNCHANGED <<stt_sstate, stt_seg, stt_minted, stt_received, stt_emitted,
                   transcript_segments>>
    /\ UNCHANGED notStt

\* publish(STT_ERROR) returns: run returns through its finally clause.
SttPublishReturn ==
    /\ stt_pc = "errpub"
    /\ SttCleanup
    /\ UNCHANGED <<stt_pumps, stt_sstate, stt_seg, stt_minted, stt_received,
                   stt_emitted, stt_published, transcript_segments>>
    /\ UNCHANGED notStt

\* The wait loop finds the session no longer Active: the audio tasks are
\* cancelled and awaited, then the finally clause.
SttLoopExit ==
    /\ stt_pc = "running"
    /\ stt_sstate # "active"
    /\ stt_pumps' = "cancelled"
    /\ SttCleanup
    /\ UNCHANGED <<stt_sstate, stt_seg, stt_minted, stt_received, stt_emitted,
                   stt_published, transcript_segments>>
    /\ UNCHANGED notStt

\* SessionManager._stop_session on the service's session.
SttSessionStop ==
    /\ stt_sstate = "active"
    /\ stt_sstate' = "stopped"
    /\ UNCHANGED <<stt_pc, stt_client, stt_pumps, stt_seg, stt_minted,
                   stt_received, stt_emitted, stt_published, transcript_segments>>
    /\ UNCHANGED notStt

SttReceivedTotal == Len(stt_received["ME"]) + Len(stt_received["THEM"])

\* RealtimeSTTClient._handle_message on one upstream message, with the
\* on_delta / on_completed callback of STTService it awaits.
SttMessage(sp, type) ==
    /\ stt_client[sp] = "connected"
    /\ SttReceivedTotal < MaxSttMsgs
    /\ stt_received' = [stt_received EXCEPT ![sp] = Append(@, type)]
    /\ LET at == Len(stt_received[sp]) + 1
       IN CASE type = "speech_started" ->
                 /\ stt_minted' = [stt_minted EXCEPT ![sp] = @ + 1]
                 /\ stt_seg' = [stt_seg EXCEPT ![sp] = stt_minted[sp] + 1]
                 /\ UNCHANGED <<stt_emitted, transcript_segments>>
            [] type = "delta" ->
                 /\ stt_emitted' =
                      IF stt_seg[sp] # 0
                      THEN [stt_emitted EXCEPT ![sp] =
                              Append(@, [kind |-> "delta", id |-> stt_seg[sp], at |-> at])]
                      ELSE stt_emitted
                 /\ UNCHANGED <<stt_seg, stt_minted, transcript_segments>>
            [] type = "completed" ->
                 LET fresh == stt_seg[sp] = 0
                     id == IF fresh THEN stt_minted[sp] + 1 ELSE stt_seg[sp]
                 IN /\ stt_minted' = [stt_minted EXCEPT ![sp] = IF fresh THEN @ + 1 ELSE @]
                    /\ stt_emitted' = [stt_emitted EXCEPT ![sp] =
                           Append(@, [kind |-> "completed", id |-> id, at |-> at])]
                    /\ transcript_segments' = transcript_segments + 1
                    /\ stt_seg' = [stt_seg EXCEPT ![sp] = SegmentAfterCompleted(@)]
            [] OTHER ->
                 UNCHANGED <<stt_seg, stt_minted, stt_emitted, transcript_segments>>
    /\ UNCHANGED <<stt_pc, stt_client, stt_pumps, stt_sstate, stt_published>>
    /\ UNCHANGED notStt

InitStt == SessIdle /\ OrchIdle /\ RestIdle /\ PureIdle

NextStt ==
    \/ \E sp \in Speakers : \E ok \in BOOLEAN : SttConnect(sp, ok)
    \/ SttPublishReturn
    \/ SttLoopExit
    \/ SttSessionStop
    \/ \E sp \in Speakers : \E type \in UpstreamTypes : SttMessage(sp, type)

SpecStt == InitStt /\ [][NextStt]_vars

SomeConnectFailed == \E sp \in Speakers : stt_client[sp] = "failed"

\* C22: when a connection failed, run publishes SttError once, never starts
\* the audio tasks, and once it has returned both clients are disconnected;
\* no step of the STT service changes the session state.
ConnectFailureInv ==
    /\ (stt_pc \in {"errpub", "done"} /\ SomeConnectFailed)
       => stt_published = <<"connect">> /\ stt_pumps = "never"
    /\ (stt_pc \in {"connect_mic", "connect_system", "running"} \/ ~SomeConnectFailed)
       => stt_published = <<>>
    /\ stt_pc = "done" => \A sp \in Speakers : stt_client[sp] \in {"failed", "closed"}
    /\ stt_pc = "running" => ~SomeConnectFailed

ConnectFailureStep == stt_sstate' # stt_sstate => SttSessionStop

ConnectFailureHandled == []ConnectFailureInv /\ [][ConnectFailureStep]_vars

\* C22 witness: the microphone client connected, the system-audio one did
\* not; run has returned with SttError published, no audio task started,
\* the microphone client disconnected and the session still Active.
ConnectFailureWitness ==
    /\ stt_pc = "done"
    /\ stt_client["ME"] = "closed"
    /\ stt_client["THEM"] = "failed"
    /\ stt_published = <<"connect">>
    /\ stt_pumps = "never"
    /\ stt_sstate = "active"

\* C23: every upstream message of type error makes the client publish an
\* SttError event.
UpstreamErrorStep ==
    \A sp \in Speakers :
        SttMessage(sp, "error") => Len(stt_published') = Len(stt_published) + 1

UpstreamErrorPublished == [][UpstreamErrorStep]_vars

Emitted(sp, k) == stt_emitted[sp][k]

\* C30: within one client the segment ids in use never exceed the ids
\* minted, every speech_started takes an id no event of that client carries
\* yet, the emitted events follow the order of the messages received, an id
\* has at most one completion, and no delta of an id follows its completion.
SegmentOrderInv ==
    \A sp \in Speakers :
        /\ stt_seg[sp] <= stt_minted[sp]
        /\ \A k \in 1..Len(stt_emitted[sp]) :
              /\ Emitted(sp, k).id \in 1..stt_minted[sp]
              /\ stt_received[sp][Emitted(sp, k).at] = Emitted(sp, k).kind
              /\ \A j \in 1..(k - 1) :
                    /\ Emitted(sp, j).at < Emitted(sp, k).at
                    /\ Emitted(sp, j).id <= Emitted(sp, k).id
                    /\ (Emitted(sp, j).kind = "completed")
                       => Emitted(sp, j).id < Emitted(sp, k).id

SegmentOrderStep ==
    \A sp \in Speakers :
        SttMessage(sp, "speech_started")
        => /\ stt_seg'[sp] # 0
           /\ \A k \in 1..Len(stt_emitted[sp]) : Emitted(sp, k).id # stt_seg'[sp]
           /\ stt_seg'[sp] > stt_minted[sp]

SegmentOrder == []SegmentOrderInv /\ [][SegmentOrderStep]_vars

\* C30 witness: one client received speech_started, a delta, the
\* completion and a late delta; the first delta and the completion were
\* emitted with the one id, the late delta was not emitted.
SegmentOrderWitness ==
    \E sp \in Speakers :
        /\ stt_received[sp] = <<"speech_started", "delta", "completed", "delta">>
        /\ Len(stt_emitted[sp]) = 2
        /\ Emitted(sp, 1) = [kind |-> "delta", id |-> 1, at |-> 2]
        /\ Emitted(sp, 2) = [kind |-> "completed", id |-> 1, at |-> 3]

---------------------------------------------------------------------------
(* Hint formatting (services/llm_service.py, LLMService._format_hint) on    *)
(* texts of up to MaxFormatLines lines drawn from FormatLines.  A character  *)
(* outside ASCII is written by its code point: "u2022" is the bullet.       *)

MAX_HINT_POINTS == 3

MaxFormatLines == 4

\* the bullet character U+2022
BULLET == "u2022"

\* the second prefix literal of _format_hint as the source file holds it:
\* the characters U+00E2 U+20AC U+00A2 and a space
BulletLiteral == <<"u00E2", "u20AC", "u00A2", " ">>

\* lines a completion is made of: a dash bullet, an asterisk bullet, a line
\* beginning with the bullet character, one beginning with the source's
\* literal, numbered lines with and without text, plain text, an empty line,
\* a padded bullet
FormatLines ==
    { <<"-", " ", "a">>, <<"*", " ", "a">>, <<BULLET, " ", "a">>,
      BulletLiteral \o <<"a">>,
      <<"1", ".", "a">>, <<"1", ".">>, <<"a">>, <<>>, <<" ", "-", " ", "a", " ">> }

SeqsUpTo(S, n) == UNION {[1..k -> S] : k \in 0..n}

\* text.split("\n")
RECURSIVE SplitLines(_)
SplitLines(t) ==
    IF \A i \in 1..Len(t) : t[i] # "\n" THEN <<t>>
    ELSE LET i == CHOOSE i \in 1..Len(t) : t[i] = "\n" /\ \A j \in 1..(i - 1) : t[j] # "\n"
         IN <<SubSeq(t, 1, i - 1)>> \o SplitLines(SubSeq(t, i + 1, Len(t)))

\* line.startswith(p)
StartsWith(line, p) == Len(line) >= Len(p) /\ SubSeq(line, 1, Len(p)) = p

\* the three bullet prefixes _format_hint keeps
IsBullet(line) ==
    \/ StartsWith(line, <<"-", " ">>)
    \/ StartsWith(line, BulletLiteral)
    \/ StartsWith(line, <<"*", " ">>)

\* line[0].isdigit() and "." in line[:3]
IsNumbered(line) ==
    /\ line[1] \in Digits
    /\ \E i \in 1..Len(line) : i <= 3 /\ line[i] = "."

\* "- " + line.split(".", 1)[1].strip()
NumberedToBullet(line) ==
    LET i == CHOOSE i \in 1..Len(line) : line[i] = "." /\ \A j \in 1..(i - 1) : line[j] # "."
    IN <<"-", " ">> \o Strip(SubSeq(line, i + 1, Len(line)))

\* the loop of _format_hint over the lines from the k-th on, with the
\* bullet points collected so far
RECURSIVE Collect(_, _, _)
Collect(lines, k, bullets) ==
    IF k > Len(lines) THEN bullets
    ELSE LET line == Strip(lines[k])
         IN IF line = <<>> THEN Collect(lines, k + 1, bullets)
            ELSE IF IsBullet(line) THEN Collect(lines, k + 1, Append(bullets, line))
            ELSE IF IsNumbered(line)
                 THEN Collect(lines, k + 1, Append(bullets, NumberedToBullet(line)))
            ELSE IF bullets # <<>>
                 THEN Collect(lines, k + 1,
                              [bullets EXCEPT ![Len(bullets)] = @ \o <<" ">> \o line])
            ELSE Collect(lines, k + 1, bullets)

\* "\n".join(lines)
RECURSIVE JoinLines(_)
JoinLines(lines) ==
    IF lines = <<>> THEN <<>>
    ELSE IF Len(lines) = 1 THEN lines[1]
    ELSE lines[1] \o <<"\n">> \o JoinLines(Tail(lines))

\* no truncation at all
KeepAll(bullets) == bullets

\* bullet_points[:MAX_HINT_POINTS]
Truncate(bullets) ==
    SubSeq(bullets, 1, IF Len(bullets) < MAX_HINT_POINTS
                       THEN Len(bullets) ELSE MAX_HINT_POINTS)

\* LLMService._format_hint(text)
FormatHint(text) ==
    JoinLines(Truncate(Collect(SplitLines(Strip(text)), 1, <<>>)))

\* the lines of a formatted hint; the empty hint has none
HintLines(f) == IF f = <<>> THEN <<>> ELSE SplitLines(f)

\* _generate_hint: formatted = self._format_hint(collected_text)
ApplyFormat ==
    /\ ~called
    /\ called' = TRUE
    /\ ret' = FormatHint(arg)
    /\ UNCHANGED arg
    /\ UNCHANGED notPure

\* the formatted text is formatted again
ApplyFormatAgain ==
    /\ called
    /\ arg # ret
    /\ arg' = ret
    /\ ret' = FormatHint(ret)
    /\ UNCHANGED called
    /\ UNCHANGED notPure

InitFormat ==
    /\ SessIdle /\ OrchIdle /\ RestIdle
    /\ arg \in {JoinLines(ls) : ls \in SeqsUpTo(FormatLines, MaxFormatLines)}
    /\ ret = <<>>
    /\ called = FALSE

NextFormat == ApplyFormat \/ ApplyFormatAgain

SpecFormat == InitFormat /\ [][NextFormat]_vars

\* C24: formatting a formatted hint returns it unchanged.
FormatIdempotent == called => FormatHint(ret) = ret

---------------------------------------------------------------------------
(* Question detection (services/orchestrator.py, is_question) on texts     *)
(* made of optional padding, a head and a tail.                            *)

\* w with its first letter in upper case
Capitalised(w) ==
    [w EXCEPT ![1] = UpperCase[CHOOSE k \in 1..Len(LowerCase) : LowerCase[k] = w[1]]]

\* the listed words and phrases in lower case and capitalised, a word that
\* is not listed, and a listed word that is not at the start
QuestionHeads ==
    {QUESTION_WORDS[k] : k \in 1..Len(QUESTION_WORDS)}
    \cup {Capitalised(QUESTION_WORDS[k]) : k \in 1..Len(QUESTION_WORDS)}
    \cup {<<"s", "o">>, <<"s", "o", " ", "w", "h", "a", "t">>}

\* what follows the head: nothing, another word, letters, a digit or an
\* underscore joined to the head, punctuation, a question mark, a space
QuestionTails ==
    {<<>>, <<" ", "x">>, <<"e", "v", "e", "r">>, <<"1">>, <<"_">>, <<",">>,
     <<".">>, <<"?">>, <<" ", "x", "?">>, <<" ">>}

QuestionPads == {<<>>, <<" ">>, <<"\n", " ">>}

QuestionTexts ==
    {p \o h \o t : p \in QuestionPads, h \in QuestionHeads, t \in QuestionTails}

\* the text in lower case
LowerText(t) == [i \in 1..Len(t) |-> Lower(t[i])]

\* Orchestrator._on_transcript_completed: if is_question(text)
ApplyIsQuestion ==
    /\ ~called
    /\ called' = TRUE
    /\ ret' = IsQuestion(arg)
    /\ UNCHANGED arg
    /\ UNCHANGED notPure

InitQuestion ==
    /\ SessIdle /\ OrchIdle /\ RestIdle
    /\ arg \in QuestionTexts
    /\ ret = FALSE
    /\ called = FALSE

NextQuestion == ApplyIsQuestion

SpecQuestion == InitQuestion /\ [][NextQuestion]_vars

\* C26 as stated: is_question(s) is true exactly when s, trimmed and with
\* case ignored, contains "?" or begins with one of the listed prefixes.
QuestionIffPrefix ==
    called =>
        (ret <=>
            \/ \E i \in 1..Len(arg) : arg[i] = "?"
            \/ \E k \in 1..Len(QUESTION_WORDS) :
                  StartsWith(LowerText(Strip(arg)), QUESTION_WORDS[k]))

\* C26: is_question(s) is true exactly when s, trimmed and with case
\* ignored, contains "?" or begins with one of the listed prefixes and the
\* prefix ends the text or is followed by a character that is not a letter,
\* a digit or an underscore.
QuestionIffWholeWordPrefix ==
    called =>
        (ret <=>
            \/ \E i \in 1..Len(arg) : arg[i] = "?"
            \/ \E k \in 1..Len(QUESTION_WORDS) :
                  LET t == Strip(arg)
                      n == Len(QUESTION_WORDS[k])
                  IN /\ StartsWith(LowerText(t), QUESTION_WORDS[k])
                     /\ Len(t) = n \/ t[n + 1] \notin
                           {LowerCase[j] : j \in 1..26} \cup {UpperCase[j] : j \in 1..26}
                           \cup Digits \cup {"_"})

\* C26: a text without "?" that begins with a listed prefix running on into
\* a longer word has been examined and is not a question.
QuestionIffWholeWordPrefixWitness ==
    /\ called
    /\ ~ret
    /\ \A i \in 1..Len(arg) : arg[i] # "?"
    /\ \E k \in 1..Len(QUESTION_WORDS) : StartsWith(LowerText(Strip(arg)), QUESTION_WORDS[k])

---------------------------------------------------------------------------
(* Retrieval (services/knowledge_service.py, KnowledgeService.retrieve)    *)
(* over an index of two files with up to MaxIndexChunks chunks in all.  A  *)
(* chunk's text is named by its file and position; the query is given by   *)
(* the keywords extract_keywords finds in it.                              *)

MaxIndexChunks == 4

MAX_CONTEXT_TOKENS == 2000

\* chunk_text(text, max_chars=1000): the longest text of a chunk
CHUNK_MAX_CHARS == 1000

\* retrieve(workspace, query, top_k=3)
TOP_K == 3

Keywords == {"distributed", "culinary"}

KnowledgeFiles == <<"systems.md", "cooking.md">>

\* the indices a workspace can have: per file the keyword sets of its chunks
Indices ==
    {ix \in [1..Len(KnowledgeFiles) -> SeqsUpTo(SUBSET Keywords, MaxIndexChunks)] :
        Len(ix[1]) + Len(ix[2]) <= MaxIndexChunks}

\* the chunks of file f from the k-th on, as retrieve's inner loop meets them
RECURSIVE FileChunks(_, _, _)
FileChunks(ix, f, k) ==
    IF k > Len(ix[f]) THEN <<>>
    ELSE <<[filename |-> KnowledgeFiles[f], text |-> <<KnowledgeFiles[f], k>>,
            keywords |-> ix[f][k], chars |-> CHUNK_MAX_CHARS]>>
         \o FileChunks(ix, f, k + 1)

\* for file_index in indices: for chunk in file_index.chunks
RECURSIVE AllChunks(_, _)
AllChunks(ix, f) ==
    IF f > Len(KnowledgeFiles) THEN <<>>
    ELSE FileChunks(ix, f, 1) \o AllChunks(ix, f + 1)

\* overlap = len(query_keywords & chunk["keywords"])
Score(q, c) == Cardinality(q \cap c.keywords)

\* scored_chunks: the chunks with overlap > 0, in index order
RECURSIVE Scored(_, _)
Scored(q, cs) ==
    IF cs = <<>> THEN <<>>
    ELSE IF Score(q, Head(cs)) > 0
         THEN <<[text |-> Head(cs).text, score |-> Score(q, Head(cs)),
                 filename |-> Head(cs).filename, chars |-> Head(cs).chars]>>
              \o Scored(q, Tail(cs))
         ELSE Scored(q, Tail(cs))

\* x put into a list sorted by score descending, after its equals
RECURSIVE InsertByScore(_, _)
InsertByScore(x, xs) ==
    IF xs = <<>> THEN <<x>>
    ELSE IF Head(xs).score >= x.score
         THEN <<Head(xs)>> \o InsertByScore(x, Tail(xs))
         ELSE <<x>> \o xs

\* the list left as it is
Unsorted(xs) == xs

\* scored_chunks.sort(key=score, reverse=True): a stable sort
RECURSIVE SortByScore(_)
SortByScore(xs) ==
    IF xs = <<>> THEN <<>>
    ELSE InsertByScore(xs[Len(xs)], SortByScore(SubSeq(xs, 1, Len(xs) - 1)))

\* scored_chunks[:top_k]
TopK(xs) == SubSeq(xs, 1, IF Len(xs) < TOP_K THEN Len(xs) ELSE TOP_K)

\* f"[From {filename}]\n{text}"
Render(filename, text) == <<"[From ", filename, "]", "\n", text>>

\* the loop building context_parts under the budget of MAX_CONTEXT_TOKENS * 4
\* characters
RECURSIVE BuildContext(_, _)
BuildContext(cs, total_chars) ==
    IF cs = <<>> THEN <<>>
    ELSE LET c == Head(cs)
             max_chars == MAX_CONTEXT_TOKENS * 4
             remaining == max_chars - total_chars
         IN IF total_chars + c.chars > max_chars
            THEN IF remaining > 100
                 THEN <<Render(c.filename, <<c.text, remaining, "...">>)>>
                      \o BuildContext(Tail(cs), total_chars + remaining + 3)
                 ELSE <<>>
            ELSE <<Render(c.filename, c.text)>>
                 \o BuildContext(Tail(cs), total_chars + c.chars)

\* KnowledgeService.retrieve: the context parts, joined by blank lines
Retrieve(ix, q) ==
    IF AllChunks(ix, 1) = <<>> \/ q = {} THEN <<>>
    ELSE BuildContext(TopK(SortByScore(Scored(q, AllChunks(ix, 1)))), 0)

\* LLMService._build_prompt: knowledge_service.retrieve(workspace, text)
ApplyRetrieve ==
    /\ ~called
    /\ called' = TRUE
    /\ ret' = Retrieve(arg.index, arg.query)
    /\ UNCHANGED arg
    /\ UNCHANGED notPure

InitRetrieve ==
    /\ SessIdle /\ OrchIdle /\ RestIdle
    /\ arg \in [index : Indices, query : SUBSET Keywords]
    /\ ret = <<>>
    /\ called = FALSE

NextRetrieve == ApplyRetrieve

SpecRetrieve == InitRetrieve /\ [][NextRetrieve]_vars

\* the places in the index of the chunk a context part was rendered from
PlacesOf(part) ==
    {i \in 1..Len(AllChunks(arg.index, 1)) :
        LET c == AllChunks(arg.index, 1)[i] IN part = Render(c.filename, c.text)}

PlaceOf(part) == CHOOSE i \in PlacesOf(part) : TRUE

PartScore(part) == Score(arg.query, AllChunks(arg.index, 1)[PlaceOf(part)])

\* C27: a retrieval returns at most 3 parts; each is the "[From <filename>]"
\* header line followed by the text of a chunk that shares a keyword with
\* the query; the parts are in descending order of score, equal scores in
\* index order; no chunk without a shared keyword appears.
RetrieveScoredInOrder ==
    called =>
        /\ Len(ret) <= 3
        /\ \A k \in 1..Len(ret) :
              /\ Cardinality(PlacesOf(ret[k])) = 1
              /\ PartScore(ret[k]) > 0
        /\ \A k, l \in 1..Len(ret) :
              k < l =>
                \/ PartScore(ret[k]) > PartScore(ret[l])
                \/ PartScore(ret[k]) = PartScore(ret[l]) /\ PlaceOf(ret[k]) < PlaceOf(ret[l])

\* C27: a retrieval over four chunks, one of them without a shared keyword,
\* has returned three parts, two of equal score below the first.
RetrieveScoredInOrderWitness ==
    /\ called
    /\ Len(ret) = 3
    /\ \E i \in 1..Len(AllChunks(arg.index, 1)) :
          Score(arg.query, AllChunks(arg.index, 1)[i]) = 0
    /\ PlaceOf(ret[1]) > PlaceOf(ret[2])
    /\ PartScore(ret[1]) > PartScore(ret[2])
    /\ PartScore(ret[2]) = PartScore(ret[3])

---------------------------------------------------------------------------
(* Resampling (utils/audio.py, resample_16k_to_24k) by buffer sizes: arg   *)
(* is the number of bytes of the 16 kHz frame, ret the number of bytes     *)
(* returned.  A frame taken from a session queue holds at least one        *)
(* sample; frames of up to MaxSamples samples are resampled.               *)

MaxSamples == 320

SAMPLE_RATE_CLIENT == 16000

SAMPLE_RATE_STT == 24000

\* bytes of an int16 sample
INT16_BYTES == 2

\* len(np.frombuffer(pcm_bytes, dtype=np.int16))
SamplesIn(bytes) == bytes \div INT16_BYTES

\* the product rounded to the nearest integer
OutputLengthRounded(n) ==
    (2 * n * SAMPLE_RATE_STT + SAMPLE_RATE_CLIENT) \div (2 * SAMPLE_RATE_CLIENT)

\* ratio = SAMPLE_RATE_STT / SAMPLE_RATE_CLIENT; int(len(samples_16k) * ratio):
\* the product is exact in floating point and int() drops its fraction
OutputLength(n) == (n * SAMPLE_RATE_STT) \div SAMPLE_RATE_CLIENT

\* len(resample_16k_to_24k(pcm_bytes)): signal.resample returns output_length
\* samples, written back as int16
ResampledBytes(bytes) == OutputLength(SamplesIn(bytes)) * INT16_BYTES

\* STTService._process_mic_audio: pcm_24k = resample_16k_to_24k(pcm_16k)
ApplyResample ==
    /\ ~called
    /\ called' = TRUE
    /\ ret' = ResampledBytes(arg)
    /\ UNCHANGED arg
    /\ UNCHANGED notPure

InitResample ==
    /\ SessIdle /\ OrchIdle /\ RestIdle
    /\ arg \in {INT16_BYTES * n : n \in 1..MaxSamples}
    /\ ret = 0
    /\ called = FALSE

NextResample == ApplyResample

SpecResample == InitResample /\ [][NextResample]_vars

\* C28: a frame of N int16 samples is resampled to exactly floor(3N/2)
\* int16 samples.
ResampleLength ==
    called => 2 * (ret \div 2) = ret /\ ret \div 2 = (3 * (arg \div 2)) \div 2

\* C28: a frame of 320 samples has been resampled to 480 samples.
ResampleLengthWitness == called /\ arg = 640 /\ ret = 960

---------------------------------------------------------------------------
(* Conversation context (services/orchestrator.py,                         *)
(* TextAggregator.get_global_context) over histories of up to              *)
(* MaxHistorySegs completed segments.  A segment is given by its speaker    *)
(* and the number of characters of its text, a rendered line by its         *)
(* speaker and its number of characters.                                    *)

MaxHistorySegs == 3

\* get_global_context(max_chars=500)
CONTEXT_MAX_CHARS == 500

\* text lengths around the budget: an empty text, two lines that fill the
\* budget together, one line that fills it alone, one that exceeds it
SegmentChars == {0, 10, 244, 245, 494, 495}

\* len(f"{prefix} {segment.text}") with prefix "[ME]" or "[THEM]"
LineChars(seg) == (IF seg.speaker = "ME" THEN 4 ELSE 6) + 1 + seg.chars

\* the loop over reversed(self.history) from the k-th segment down: the
\* lines collected, newest first
RECURSIVE ContextLines(_, _, _)
ContextLines(h, k, total_chars) ==
    IF k = 0 THEN <<>>
    ELSE IF total_chars + LineChars(h[k]) > CONTEXT_MAX_CHARS THEN <<>>
    ELSE <<[speaker |-> h[k].speaker, chars |-> LineChars(h[k]), seg |-> k]>>
         \o ContextLines(h, k - 1, total_chars + LineChars(h[k]))

\* reversed(texts)
Reversed(xs) == [i \in 1..Len(xs) |-> xs[Len(xs) + 1 - i]]

\* TextAggregator.get_global_context(): the lines in chronological order
GlobalContext(h) == Reversed(ContextLines(h, Len(h), 0))

\* len("\n".join(lines))
RECURSIVE JoinedChars(_)
JoinedChars(lines) ==
    IF lines = <<>> THEN 0
    ELSE IF Len(lines) = 1 THEN lines[1].chars
    ELSE lines[1].chars + 1 + JoinedChars(Tail(lines))

\* Orchestrator._process_chunk: global_context = get_global_context()
ApplyGlobalContext ==
    /\ ~called
    /\ called' = TRUE
    /\ ret' = GlobalContext(arg)
    /\ UNCHANGED arg
    /\ UNCHANGED notPure

InitContext ==
    /\ SessIdle /\ OrchIdle /\ RestIdle
    /\ arg \in SeqsUpTo([speaker : Speakers, chars : SegmentChars], MaxHistorySegs)
    /\ ret = <<>>
    /\ called = FALSE

SpecContext == InitContext /\ [][ApplyGlobalContext]_vars

\* C31: the global_context string has at most 500 characters; it is made
\* of the newest segments, in chronological order.
GlobalContextWithin500 ==
    called =>
        /\ JoinedChars(ret) <= 500
        /\ \A k \in 1..Len(ret) : ret[k].seg = Len(arg) - Len(ret) + k

---------------------------------------------------------------------------
(* Further properties of the completion streamer.                          *)

\* the _generate_hint activations that have not returned: the one in flight
\* and those suspended in their finally clause awaiting a nested call
LiveGens == {g \in HintIds : gens[g].pc \in InFlight \cup {"wait"}}

\* C32: consuming a pending chunk does not nest; at most one _generate_hint
\* activation is live at any time.
GenerationDoesNotNest == Cardinality(LiveGens) <= 1

---------------------------------------------------------------------------
(* The completion streamer while its session is stopped.  stop_session     *)
(* sets the state and cancels the pipeline tasks one after the other; the   *)
(* run loop of LLMService leaves on the state or on its cancellation and    *)
(* runs _cleanup.  A generation runs in the task of the publish that        *)
(* delivered its chunk, not in the LLMService task.                         *)

\* SessionManager._stop_session: session.state = STOPPED
LlmSessionStop ==
    /\ llm_sstate = "active"
    /\ llm_sstate' = "stopped"
    /\ UNCHANGED llm_cleaned
    /\ UNCHANGED <<llmVars, sessVars, ingVars, orchVars, busVars, connVars, sttVars, pureVars,
                   pumpVars>>

\* LLMService.run leaves its loop and runs _cleanup: the cancel event is
\* set and _on_chunk is unsubscribed
LlmCleanup ==
    /\ llm_sstate = "stopped"
    /\ ~llm_cleaned
    /\ llm_cleaned' = TRUE
    /\ cancel_event' = TRUE
    /\ UNCHANGED llm_sstate
    /\ UNCHANGED <<lmode, lhints, generating, current_hint_id, pending_chunk, gens,
                   next_chunk, completed, hints_generated, llm_errors, preempted,
                   buffered>>
    /\ UNCHANGED <<sessVars, ingVars, orchVars, busVars, connVars, sttVars, pureVars,
                   pumpVars>>

\* The task a generation runs in is cancelled with its publisher (the STT
\* receive loop or the aggregator's run loop): CancelledError is raised at
\* the generation's await, no except clause takes it, the finally clause runs.
GenCancelled(g) ==
    /\ llm_sstate = "stopped"
    /\ gens[g].pc \in InFlight
    /\ Finally(g, "cancelled")
    /\ UNCHANGED <<lmode, lhints, next_chunk, completed, hints_generated,
                   llm_errors, preempted, buffered>>
    /\ UNCHANGED notLlm

\* TEXT_CHUNK_READY reaches _on_chunk while it is subscribed
OnChunkSubscribed == ~llm_cleaned /\ OnChunk

NextLLMStop ==
    \/ OnChunkSubscribed
    \/ \E g \in HintIds : \E ok \in BOOLEAN : Response(g, ok)
    \/ \E g \in HintIds : \E kind \in {"token", "skip", "done"} : Line(g, kind)
    \/ \E g \in HintIds : StreamEnd(g)
    \/ \E g \in HintIds : StreamError(g)
    \/ \E g \in HintIds : PublishReturn(g)
    \/ LlmSessionStop
    \/ LlmCleanup
    \/ \E g \in HintIds : GenCancelled(g)

SpecLLMStop == InitLLM /\ [][NextLLMStop]_vars

QuietAfterCleanupStep ==
    llm_cleaned =>
        \A g \in HintIds :
            /\ gens[g].pc = "none" => gens'[g].pc = "none"
            /\ gens'[g].pc \in {"tokpub", "compub"} => gens[g].pc = gens'[g].pc

\* C36: once the session is stopped and the completion streamer has been
\* cleaned up, no generation starts and no HintToken or HintCompleted is
\* published.
QuietAfterCleanup == [][QuietAfterCleanupStep]_vars

---------------------------------------------------------------------------
(* Further properties of the session supervisor.                           *)

\* the running tasks of one kind registered with session h
RunningOf(h, kind) ==
    {i \in 1..Len(tasks[h]) : tasks[h][i].kind = kind /\ tasks[h][i].st = "running"}

OnePipelinePerSession ==
    \A h \in Handlers : \A k \in 1..Len(Pipeline) :
        Cardinality(RunningOf(h, Pipeline[k])) <= 1

SpawnOnlyFromCreatedStep ==
    \A h \in Handlers :
        (StartMsg(h) /\ sstate[h] # "created") => tasks'[h] = tasks[h]

\* C33: a start_session message on a session that is not Created spawns no
\* pipeline task, and a session never has more than one running STT
\* service, aggregator or completion streamer.
SpawnOnlyFromCreated ==
    []OnePipelinePerSession /\ [][SpawnOnlyFromCreatedStep]_vars

\* C37: once a connection handler's cleanup has completed, the handler's
\* own session is Stopped.
ClosedSessionStopped ==
    \A h \in Handlers : hpc[h] = "closed" => sstate[h] = "stopped"

---------------------------------------------------------------------------
(* Further properties of the aggregator's dispatches.                      *)

\* the pending text as it stands was handed to _process_chunk by a trigger
\* from pending
PendingWasDispatched ==
    \E i \in 1..Len(dispatches) :
        /\ dispatches[i].src \in {"timeout", "words"}
        /\ dispatches[i].seg = pending_segment_id
        /\ dispatches[i].chunk.text = pending_text

PendingSurvivesDispatchStep ==
    \A p \in Procs :
        (/\ opc[p] = "pub_pending" /\ opc'[p] = "idle"
         /\ pending_text # <<>>
         /\ ~PendingWasDispatched)
        => UNCHANGED <<pending_text, pending_speaker, pending_segment_id>>

\* C34: when the dispatch of a trigger from pending finishes, a pending text
\* that a delta set during the dispatch, and that was never dispatched, is
\* left as it is.
PendingSurvivesDispatch == [][PendingSurvivesDispatchStep]_vars

\* C35: for one open segment the word-count trigger publishes at most one
\* chunk; no later chunk of the segment contains the text already published.
WordTriggerOncePerSegment ==
    \A i, j \in 1..Len(dispatches) :
        (/\ i < j
         /\ dispatches[i].src = "words" /\ dispatches[i].out = "published"
         /\ dispatches[j].src = "words" /\ dispatches[j].out = "published"
         /\ dispatches[i].seg = dispatches[j].seg)
        => ~StartsWith(dispatches[j].chunk.text, dispatches[i].chunk.text)

---------------------------------------------------------------------------
(* Further properties of the speech-to-text clients.  The upstream answers  *)
(* each utterance of a connection with one completion, in the order of the  *)
(* utterances: a message belongs to the utterance after the completions     *)
(* received before it.                                                      *)

UtteranceOf(sp, at) ==
    1 + Cardinality({k \in 1..(at - 1) :
                        stt_received[sp][k] \in {"completed", "completed_empty"}})

\* C38: a completion is emitted under the segment id under which the deltas
\* of its own utterance were emitted, whatever the order of the upstream
\* messages.
CompletedCarriesDeltaId ==
    \A sp \in Speakers :
        \A j, k \in 1..Len(stt_emitted[sp]) :
            (/\ Emitted(sp, j).kind = "delta"
             /\ Emitted(sp, k).kind = "completed"
             /\ UtteranceOf(sp, Emitted(sp, j).at) = UtteranceOf(sp, Emitted(sp, k).at))
            => Emitted(sp, j).id = Emitted(sp, k).id

---------------------------------------------------------------------------
(* The aggregator and the completion streamer together.  publish awaits     *)
(* the gather of its handler tasks, and _on_chunk awaits _generate_hint:    *)
(* the publish of TEXT_CHUNK_READY returns to the process that made it      *)
(* when the _on_chunk it started has returned.  Handler tasks start in the  *)
(* order of the publishes, so the n-th chunk _on_chunk receives is the      *)
(* n-th published dispatch.                                                 *)

\* the process that made a dispatch: the run() loop for a timeout, else the
\* receive loop of the speaker's STT client
ProcOf(d) ==
    IF d.src = "timeout" THEN "tick"
    ELSE IF d.chunk.speaker = "ME" THEN "me" ELSE "them"

PublishedUpTo(i) ==
    Cardinality({k \in 1..i : dispatches[k].out = "published"})

\* the chunk of the publish process p is suspended in (its latest)
ChunkOf(p) ==
    LET mine == {i \in 1..Len(dispatches) :
                    dispatches[i].out = "published" /\ ProcOf(dispatches[i]) = p}
    IN IF mine = {} THEN 0
       ELSE PublishedUpTo(CHOOSE i \in mine : \A j \in mine : j <= i)

\* _safe_call(_on_chunk, chunk) has returned: the chunk was delivered and
\* the generation it started directly, if any, has returned
HandlerReturned(k) ==
    /\ k < next_chunk
    /\ ~\E g \in HintIds :
          gens[g].chunk = k /\ gens[g].parent = 0 /\ gens[g].pc # "done"

\* EventBus.publish starts the handler task of the next published chunk
ChunkDelivered ==
    /\ PublishedUpTo(Len(dispatches)) >= next_chunk
    /\ OnChunk

\* asyncio.gather in EventBus.publish returns
GatherReturn(p) ==
    /\ HandlerReturned(ChunkOf(p))
    /\ OrchPublishReturn(p)

InitPipe == InitOrch /\ omode = lmode

NextPipe ==
    \/ Advance
    \/ \E p \in {"me", "them"} : SpeechStarted(p)
    \/ \E p \in {"me", "them"} : \E text \in DeltaTexts : OnDelta(p, text)
    \/ \E p \in {"me", "them"} : \E text \in CompletedTexts : OnCompleted(p, text)
    \/ TimeoutCheck
    \/ ChunkDelivered
    \/ \E p \in Procs : GatherReturn(p)
    \/ \E g \in HintIds : \E ok \in BOOLEAN : Response(g, ok)
    \/ \E g \in HintIds : \E kind \in {"token", "skip", "done"} : Line(g, kind)
    \/ \E g \in HintIds : StreamEnd(g)
    \/ \E g \in HintIds : StreamError(g)
    \/ \E g \in HintIds : PublishReturn(g)

SpecPipe == InitPipe /\ [][NextPipe]_vars

\* an STT client's receive loop is suspended in the publish of a chunk
\* whose generation is publishing a token
HeldByGeneration(p) ==
    /\ opc[p] # "idle"
    /\ \E g \in HintIds :
          /\ gens[g].chunk = ChunkOf(p)
          /\ gens[g].parent = 0
          /\ gens[g].pc # "done"
    /\ \E h \in HintIds : gens[h].pc = "tokpub"

\* C39: the receive loop of an STT client is not held for the duration of a
\* generation: while a generation streams its tokens no STT client is
\* suspended in the publish that started it.
ReceiveLoopNotHeld == \A p \in {"me", "them"} : ~HeldByGeneration(p)

---------------------------------------------------------------------------
(* Audio ingress with the pumps of the speech-to-text service               *)
(* (STTService._process_mic_audio / _process_system_audio).  A pump takes   *)
(* the head of its channel's queue, resamples it and sends it upstream.     *)

MaxPumpFrames == 203
MaxDequeues == 2

\* _handle_audio on one binary message
PumpFrame(len, ch) ==
    /\ total_frames[0] + total_frames[1] < MaxPumpFrames
    /\ HandleAudio(len, ch)

\* One pass of a pump's loop whose queue.get() returns a frame.  The pumps
\* are started on the Active session and go on until their cancellation by
\* stop_session takes effect.
PumpDequeue(ch) ==
    /\ istate # "created"
    /\ queue[ch] # <<>>
    /\ dequeued[0] + dequeued[1] < MaxDequeues
    /\ queue' = [queue EXCEPT ![ch] = Tail(@)]
    /\ dequeued' = [dequeued EXCEPT ![ch] = @ + 1]
    /\ UNCHANGED <<istate, total_frames, dropped_frames>>
    /\ UNCHANGED <<haltVars, sttVars, pureVars, sessVars, llmVars, orchVars, busVars,
                   connVars>>

NextPump ==
    \/ IngStart
    \/ IngStop
    \/ \E len \in 0..2 : \E ch \in 0..2 : PumpFrame(len, ch)
    \/ \E ch \in Channels : PumpDequeue(ch)

SpecPump == InitIngress /\ [][NextPump]_vars

FrameAccountingInv ==
    \A ch \in Channels :
        /\ Len(queue[ch]) <= AUDIO_QUEUE_MAX_SIZE
        /\ total_frames[ch] = Len(queue[ch]) + dropped_frames[ch] + dequeued[ch]

FrameAccountingStep ==
    istate # "active" =>
        /\ UNCHANGED <<total_frames, dropped_frames>>
        /\ \A ch \in Channels :
              \/ queue'[ch] = queue[ch]
              \/ queue'[ch] = Tail(queue[ch]) /\ dequeued'[ch] = dequeued[ch] + 1

\* C40: on each channel the queue never holds more than 200 frames and
\* total_frames = frames queued + dropped_frames + frames the pump took,
\* under every interleaving of enqueues and dequeues; while the session is
\* not Active no counter moves and no frame enters a queue.
FrameAccounting == []FrameAccountingInv /\ [][FrameAccountingStep]_vars

\* C40 witness: on an Active session a channel's queue is full after its
\* pump took a frame and the ingress dropped one.
FrameAccountingWitness ==
    /\ istate = "active"
    /\ \E ch \in Channels :
          /\ Len(queue[ch]) = AUDIO_QUEUE_MAX_SIZE
          /\ dropped_frames[ch] >= 1
          /\ dequeued[ch] >= 1

=============================================================================
